---- MODULE Spec2Model ----
(***************************************************************************)
(* Radiometric engine and application state of the SolarTrack simulator.  *)
(*                                                                         *)
(* Numbers.  A JavaScript number is held as a binary fixed-point integer  *)
(* with ten fractional bits (x is stored as x * S, S = 1024).  Lengths are *)
(* in units of 100 mm (200.0 mm is 2.0, stored 2048), powers in microwatts *)
(* (the code's watts * 1e6), view factors and kappa are plain numbers.     *)
(* Products, quotients and square roots truncate toward zero at the last   *)
(* bit; values on the 1/32 grid have exact squares and square roots, as    *)
(* small dyadic values have in IEEE arithmetic.  A threshold of the code   *)
(* that is smaller than one fixed-point step (1e-6, 1e-12) is one step     *)
(* here.  A product of several factors is taken with the node sum first,   *)
(* which keeps the small step sizes from vanishing in the fixed point.     *)
(***************************************************************************)
EXTENDS Integers, Sequences, FiniteSets, TLC

VARIABLES
    settings,               \* simulator_exact.js: the module-level settings object
    args,                   \* engine calls: the entry point called and its arguments
    log,                    \* engine calls: per call made, the settings in force and the value returned
    currentGestureData,     \* main.js: SolarTrackDemo fields
    uploadedGestureCache,
    currentModel,
    currentAccuracy,
    lightPosition,
    originalLightPosition,
    lightPositionModified,
    fetches,                \* gesture names of the fetches loadGesture has issued, in issue order
    inflight,               \* indices into fetches of the requests not yet settled
    applied,                \* indices into fetches of the responses applied, in order of application
    events,                 \* user inputs handled so far
    playback,               \* main.js: the animation fields of SolarTrackDemo and the
                            \* animation-frame callbacks requested and not yet run
    run                     \* the last handler: which one, the view factors it computed, its outcome

S == 1024

\* A value that may be null or undefined is held as <<>> (absent) or <<v>>.
Null == <<>>

Some(v) == <<v>>

(***************************************************************************)
(* Fixed-point arithmetic                                                  *)
(***************************************************************************)
Abs(x) == IF x < 0 THEN -x ELSE x

Sgn(x) == IF x < 0 THEN -1 ELSE IF x > 0 THEN 1 ELSE 0

Min2(x, y) == IF x <= y THEN x ELSE y

Max2(x, y) == IF x >= y THEN x ELSE y

\* const name = value; body: the value is computed once and named in body
Bind(value, body(_)) == body(value)

\* x * y
Mul(x, y) ==
    LET ax == Abs(x)
        ay == Abs(y)
    IN  Sgn(x) * Sgn(y) * ((ax \div S) * ay + ((ax % S) * ay) \div S)

\* x / y for y # 0, five bits at a time so that no intermediate exceeds 32 * |y|
Div(x, y) ==
    LET ax == Abs(x)
        ay == Abs(y)
        q0 == ax \div ay
        r0 == ax % ay
        d1 == (r0 * 32) \div ay
        r1 == (r0 * 32) % ay
        d2 == (r1 * 32) \div ay
    IN  Sgn(x) * Sgn(y) * (q0 * S + d1 * 32 + d2)

\* x / k for a plain integer k > 0
DivInt(x, k) == Sgn(x) * (Abs(x) \div k)

RECURSIVE ISqrtIn(_, _, _)
ISqrtIn(n, lo, hi) ==
    IF lo >= hi THEN lo
    ELSE LET mid == (lo + hi + 1) \div 2
         IN  IF mid * mid <= n THEN ISqrtIn(n, mid, hi) ELSE ISqrtIn(n, lo, mid - 1)

\* Math.sqrt
Sqrt(x) == IF x <= 0 THEN 0 ELSE ISqrtIn(x * S, 0, 46340)

\* Math.PI
PI == 3217

TWO_PI == 2 * PI

\* Math.pow(x, 2)
Pow2(x) == Mul(x, x)

\* cos t for 0 <= t <= PI / 2, by its series to the eighth power
CosQ(t) ==
    Bind(Pow2(t), LAMBDA t2 :
    Bind(Pow2(t2), LAMBDA t4 :
        Max2(0, Min2(S, S - (t2 \div 2) + (t4 \div 24) - (Mul(t4, t2) \div 720)
                          + (Pow2(t4) \div 40320)))))

\* Math.cos, for x >= 0
Cos(x) ==
    LET x1 == x % TWO_PI
        x2 == IF x1 > PI THEN TWO_PI - x1 ELSE x1
    IN  IF 2 * x2 > PI THEN -CosQ(PI - x2) ELSE CosQ(x2)

\* Math.sin, for x >= 0
Sin(x) == Cos(x + PI + (PI \div 2))

\* the array of f(1), ..., f(n): a for loop pushing, or Array.prototype.map
RECURSIVE Tabulate(_, _)
Tabulate(f(_), n) == IF n = 0 THEN <<>> ELSE Append(Tabulate(f, n - 1), f(n))

\* f[lo] + ... + f[hi], summed by halves (integer sums do not depend on the order)
RECURSIVE SumRange(_, _, _)
SumRange(f, lo, hi) ==
    IF lo > hi THEN 0
    ELSE IF lo = hi THEN f[lo]
    ELSE SumRange(f, lo, (lo + hi) \div 2) + SumRange(f, (lo + hi) \div 2 + 1, hi)

\* f[0] + ... + f[k]
SumFn(f, k) == SumRange(f, 0, k)

RECURSIVE SumSeq(_)
SumSeq(s) == IF s = <<>> THEN 0 ELSE Head(s) + SumSeq(Tail(s))

RECURSIVE MinSeq(_)
MinSeq(s) == IF Len(s) = 1 THEN s[1] ELSE Min2(Head(s), MinSeq(Tail(s)))

RECURSIVE MaxSeq(_)
MaxSeq(s) == IF Len(s) = 1 THEN s[1] ELSE Max2(Head(s), MaxSeq(Tail(s)))

(***************************************************************************)
(* simulator.js                                                            *)
(***************************************************************************)
\* Interval count of the fast model's quadrature grid along each axis.
FastResolution == 4

SOURCE_CENTER == <<-1636, 8897, 1723>>

SOURCE_DIAMETER == 2048

diskIntegrand(phi, rPrime, a, L) ==
    Bind(Pow2(Mul(rPrime, rPrime) - Mul(Mul(2 * a, rPrime), Cos(phi))
              + Mul(a, a) + Mul(L, L)),
         LAMBDA denominator :
             IF denominator = 0 THEN 0 ELSE Div(rPrime, denominator))

\* diskIntegrand as the value handed to simpson2D
diskIntegrandFn ==
    [p \in Int \X Int \X Int \X Int |-> diskIntegrand(p[1], p[2], p[3], p[4])]

\* func is the function passed, applied to <<phi, r, a, L>>
simpson2D(func, r_min, r_max, phi_min, phi_max, a, L, n_r, n_phi) ==
    LET h_r   == DivInt(r_max - r_min, n_r)
        h_phi == DivInt(phi_max - phi_min, n_phi)
        w_r(i)   == IF i = 0 \/ i = n_r THEN 1 ELSE IF i % 2 = 0 THEN 2 ELSE 4
        w_phi(j) == IF j = 0 \/ j = n_phi THEN 1 ELSE IF j % 2 = 0 THEN 2 ELSE 4
        row(i) == SumFn([j \in 0..n_phi |->
                     w_r(i) * w_phi(j) * func[<<phi_min + j * h_phi, r_min + i * h_r, a, L>>]],
                     n_phi)
        sum == SumFn([i \in 0..n_r |-> row(i)], n_r)
    IN  DivInt(Mul(Mul(sum, h_r), h_phi), 9)

\* A variant of calculateDiskViewFactor that honours the diameter override of
\* simulator_exact.js's settings, as simulateSolarPowerExact does: the fast
\* model would then depend on the settings too.
calculateDiskViewFactor_override(a, L, D) ==
    IF L <= 0 THEN 0
    ELSE LET effectiveDiameter == IF settings.lightDiameterOverride # Null
                                  THEN settings.lightDiameterOverride[1] ELSE D
             integralResult == simpson2D(diskIntegrandFn, 0, DivInt(effectiveDiameter, 2),
                                         0, TWO_PI, a, L, FastResolution, FastResolution)
         IN  Div(Mul(Mul(L, L), integralResult), PI)

calculateDiskViewFactor(a, L, D) ==
    IF L <= 0 THEN 0
    ELSE LET integralResult == simpson2D(diskIntegrandFn, 0, DivInt(D, 2), 0, TWO_PI,
                                         a, L, FastResolution, FastResolution)
         IN  Div(Mul(Mul(L, L), integralResult), PI)

calculateGeometry(handPos, sourceCenter) ==
    [a |-> Sqrt(Mul(sourceCenter[1] - handPos[1], sourceCenter[1] - handPos[1])
                + Mul(sourceCenter[3] - handPos[3], sourceCenter[3] - handPos[3])),
     H |-> sourceCenter[2] - handPos[2]]

\* normals is an array at every call site; (normals && i < normals.length) is i <= Len(normals)
simulateSolarPower(positions, normals, model, sourceCenter, sourceDiameter) ==
    LET geom(i) == calculateGeometry(positions[i], sourceCenter)
        oriented(i, viewFactor) ==
            LET handPos == positions[i]
                cellNormal == <<-normals[i][1], -normals[i][2], -normals[i][3]>>
                vecHandToLamp == <<sourceCenter[1] - handPos[1],
                                   sourceCenter[2] - handPos[2],
                                   sourceCenter[3] - handPos[3]>>
                dotp == Mul(cellNormal[1], vecHandToLamp[1])
                        + Mul(cellNormal[2], vecHandToLamp[2])
                        + Mul(cellNormal[3], vecHandToLamp[3])
                normCellNormal == Sqrt(Mul(cellNormal[1], cellNormal[1])
                                       + Mul(cellNormal[2], cellNormal[2])
                                       + Mul(cellNormal[3], cellNormal[3]))
                normVecHandToLamp == Sqrt(Mul(vecHandToLamp[1], vecHandToLamp[1])
                                          + Mul(vecHandToLamp[2], vecHandToLamp[2])
                                          + Mul(vecHandToLamp[3], vecHandToLamp[3]))
            IN  IF normCellNormal > 0 /\ normVecHandToLamp > 0
                THEN LET cosTheta == Div(dotp, Mul(normCellNormal, normVecHandToLamp))
                         orientationFactor == Max2(0, cosTheta)
                     IN  Mul(viewFactor, orientationFactor)
                ELSE viewFactor
        power(i) ==
            Bind(calculateDiskViewFactor(geom(i).a, geom(i).H, sourceDiameter),
                 LAMBDA viewFactor :
                     IF model = "oriented" /\ i <= Len(normals)
                     THEN oriented(i, viewFactor) ELSE viewFactor)
    IN  [power    |-> Tabulate(LAMBDA i : power(i), Len(positions)),
         a_values |-> Tabulate(LAMBDA i : geom(i).a, Len(positions)),
         H_values |-> Tabulate(LAMBDA i : geom(i).H, Len(positions))]

\* A thrown Error is the record [ok |-> FALSE, error |-> message].
Throw(msg) == [ok |-> FALSE, error |-> msg]

Return(v) == [ok |-> TRUE, value |-> v]

\* A variant of calculateKappa that divides by the sum of the view factors
\* instead of the sum of their squares.
calculateKappa_linearDenominator(viewFactors, realPower) ==
    IF Len(viewFactors) # Len(realPower)
    THEN Throw("Invalid input for kappa calculation")
    ELSE LET numerator   == SumSeq(Tabulate(LAMBDA i : viewFactors[i] * realPower[i], Len(viewFactors)))
             denominator == SumSeq(Tabulate(LAMBDA i : viewFactors[i] * S, Len(viewFactors)))
         IN  IF denominator = 0
             THEN Throw("Cannot calculate kappa: zero denominator")
             ELSE Return(Div(numerator, denominator))

\* A variant of calculateKappa that fits the ratio of the two sums, sum P / sum F.
calculateKappa_sumRatio(viewFactors, realPower) ==
    IF Len(viewFactors) # Len(realPower)
    THEN Throw("Invalid input for kappa calculation")
    ELSE LET numerator   == SumSeq(realPower)
             denominator == SumSeq(viewFactors)
         IN  IF denominator = 0
             THEN Throw("Cannot calculate kappa: zero denominator")
             ELSE Return(Div(numerator, denominator))

\* Both arguments are arrays at every call site.  The two sums are kept at full
\* precision (scale S * S).
calculateKappa(viewFactors, realPower) ==
    IF Len(viewFactors) # Len(realPower)
    THEN Throw("Invalid input for kappa calculation")
    ELSE LET numerator   == SumSeq(Tabulate(LAMBDA i : viewFactors[i] * realPower[i], Len(viewFactors)))
             denominator == SumSeq(Tabulate(LAMBDA i : viewFactors[i] * viewFactors[i], Len(viewFactors)))
         IN  IF denominator = 0
             THEN Throw("Cannot calculate kappa: zero denominator")
             ELSE Return(Div(numerator, denominator))

\* A variant of applyKappaScaling that leaves the view factors unscaled.
applyKappaScaling_unscaled(viewFactors, kappa) == viewFactors

applyKappaScaling(viewFactors, kappa) ==
    Tabulate(LAMBDA i : Mul(kappa, viewFactors[i]), Len(viewFactors))

\* A variant of applyPerSegmentScaling that stretches the normalised series by
\* the measured maximum instead of the measured range.
applyPerSegmentScaling_byMaximum(simPower, realPower) ==
    IF realPower = Null
    THEN Throw("TypeError: not iterable")
    ELSE LET simMin  == MinSeq(simPower)
             simMax  == MaxSeq(simPower)
             realMin == MinSeq(realPower[1])
             realMax == MaxSeq(realPower[1])
         IN  IF simMax > simMin
             THEN Return(Tabulate(LAMBDA i : realMin + Mul(Div(simPower[i] - simMin, simMax - simMin),
                                   realMax), Len(simPower)))
             ELSE Return(Tabulate(LAMBDA i : realMin, Len(simPower)))

\* realPower is Null or Some(array); Math.min(...null) throws a TypeError (the
\* spread of null is not iterable)
applyPerSegmentScaling(simPower, realPower) ==
    IF realPower = Null
    THEN Throw("TypeError: not iterable")
    ELSE LET simMin  == MinSeq(simPower)
             simMax  == MaxSeq(simPower)
             realMin == MinSeq(realPower[1])
             realMax == MaxSeq(realPower[1])
         IN  IF simMax > simMin
             THEN Return(Tabulate(LAMBDA i : realMin + Mul(Div(simPower[i] - simMin, simMax - simMin),
                                   realMax - realMin), Len(simPower)))
             ELSE Return(Tabulate(LAMBDA i : realMin, Len(simPower)))

\* The sum of squares is kept at full precision (scale S * S), so its root is
\* at scale S.  Both arrays are non-empty at every call site.
calculateRMSE(arr1, arr2) ==
    IF Len(arr1) # Len(arr2)
    THEN Throw("Arrays must have same length")
    ELSE LET sumSquaredError ==
                 SumSeq(Tabulate(LAMBDA i : (arr1[i] - arr2[i]) * (arr1[i] - arr2[i]), Len(arr1)))
         IN  Return(ISqrtIn(DivInt(sumSquaredError, Len(arr1)), 0, 46340))

\* A number that may be NaN or -Infinity (the values a division by zero
\* yields) is held as a record: Num(v) is the finite number v.
Num(v) == [kind |-> "number", v |-> v]

NaN == [kind |-> "NaN", v |-> 0]

NegInfinity == [kind |-> "-Infinity", v |-> 0]

\* The sum of squared differences of the entries of arr from m, at scale S * S
SumSquaredDiff(arr, m) ==
    SumSeq(Tabulate(LAMBDA i : (arr[i] - m) * (arr[i] - m), Len(arr)))

\* A variant of calculateR2 without the length check: arithmetic on the
\* undefined entries of the shorter array gives NaN.
calculateR2_unchecked(actual, predicted) ==
    IF Len(actual) # Len(predicted)
    THEN Return(NaN)
    ELSE LET mean       == DivInt(SumSeq(actual), Len(actual))
             totalSS    == SumSquaredDiff(actual, mean)
             residualSS == SumSeq(Tabulate(LAMBDA i : (actual[i] - predicted[i])
                                               * (actual[i] - predicted[i]), Len(actual)))
         IN  IF totalSS = 0
             THEN Return(IF residualSS = 0 THEN NaN ELSE NegInfinity)
             ELSE Return(Num(S - Div(residualSS, totalSS)))

\* The sums of squares are kept at full precision (scale S * S).  A totalSS of
\* zero divides by zero: 1 - x / 0 is -Infinity for x > 0 and NaN for x = 0.
calculateR2(actual, predicted) ==
    IF Len(actual) # Len(predicted)
    THEN Throw("Arrays must have same length")
    ELSE LET mean       == DivInt(SumSeq(actual), Len(actual))
             totalSS    == SumSquaredDiff(actual, mean)
             residualSS == SumSeq(Tabulate(LAMBDA i : (actual[i] - predicted[i])
                                               * (actual[i] - predicted[i]), Len(actual)))
         IN  IF totalSS = 0
             THEN Return(IF residualSS = 0 THEN NaN ELSE NegInfinity)
             ELSE Return(Num(S - Div(residualSS, totalSS)))

\* numerator, sum1Sq and sum2Sq are kept at full precision (scale S * S)
calculateCorrelation(arr1, arr2) ==
    IF Len(arr1) # Len(arr2)
    THEN Throw("Arrays must have same length")
    ELSE LET n     == Len(arr1)
             mean1 == DivInt(SumSeq(arr1), n)
             mean2 == DivInt(SumSeq(arr2), n)
             numerator == SumSeq(Tabulate(LAMBDA i : (arr1[i] - mean1) * (arr2[i] - mean2), n))
             sum1Sq == SumSquaredDiff(arr1, mean1)
             sum2Sq == SumSquaredDiff(arr2, mean2)
             denominator == ISqrtIn(sum1Sq * sum2Sq, 0, 46340)
         IN  IF denominator = 0 THEN Return(Num(0))
             ELSE Return(Num(Div(numerator, denominator)))

(***************************************************************************)
(* simulator_exact.js.  The module-level settings object is read by the   *)
(* integration routines; here it is their first argument st.              *)
(***************************************************************************)
LAMP_NORMAL == <<0, -S, 0>>

DEFAULT_INTEGRATION_R == 20

DEFAULT_INTEGRATION_PHI == 20

DefaultSettings ==
    [integrationResolutionR   |-> DEFAULT_INTEGRATION_R,
     integrationResolutionPhi |-> DEFAULT_INTEGRATION_PHI,
     lightDiameterOverride    |-> Null]

\* A variant of updateSettings that stores the requested resolutions as given.
updateSettings_unclamped(st, newSettings) ==
    [integrationResolutionR |->
        IF newSettings.integrationResolutionR # Null
        THEN newSettings.integrationResolutionR[1]
        ELSE st.integrationResolutionR,
     integrationResolutionPhi |->
        IF newSettings.integrationResolutionPhi # Null
        THEN newSettings.integrationResolutionPhi[1]
        ELSE st.integrationResolutionPhi,
     lightDiameterOverride |->
        IF newSettings.lightDiameterOverride # Null
        THEN newSettings.lightDiameterOverride[1]
        ELSE st.lightDiameterOverride]

\* A field of newSettings is Null when it is undefined in the code, else Some(value);
\* settings.lightDiameterOverride is itself Null or Some(diameter).
updateSettings(st, newSettings) ==
    [integrationResolutionR |->
        IF newSettings.integrationResolutionR # Null
        THEN Max2(4, Min2(100, newSettings.integrationResolutionR[1]))
        ELSE st.integrationResolutionR,
     integrationResolutionPhi |->
        IF newSettings.integrationResolutionPhi # Null
        THEN Max2(4, Min2(100, newSettings.integrationResolutionPhi[1]))
        ELSE st.integrationResolutionPhi,
     lightDiameterOverride |->
        IF newSettings.lightDiameterOverride # Null
        THEN newSettings.lightDiameterOverride[1]
        ELSE st.lightDiameterOverride]

resetSettings(st) == DefaultSettings

\* A variant of integrate2D with the interior weights exchanged: 2 at odd
\* indices, 4 at even ones.
integrate2D_weightsExchanged(f, rMax, nR0, nPhi0) ==
    LET nR   == IF nR0 % 2 # 0 THEN nR0 + 1 ELSE nR0
        nPhi == IF nPhi0 % 2 # 0 THEN nPhi0 + 1 ELSE nPhi0
        dr   == DivInt(rMax, nR)
        dPhi == DivInt(TWO_PI, nPhi)
        wR(i)   == IF i = 0 \/ i = nR THEN 1 ELSE IF i % 2 = 1 THEN 2 ELSE 4
        wPhi(j) == IF j = 0 \/ j = nPhi THEN 1 ELSE IF j % 2 = 1 THEN 2 ELSE 4
        row(i) == SumFn([j \in 0..nPhi |-> wR(i) * wPhi(j) * f[<<i * dr, j * dPhi>>]], nPhi)
        total == SumFn([i \in 0..nR |-> row(i)], nR)
    IN  Mul(Mul(total, DivInt(dr, 3)), DivInt(dPhi, 3))

\* the grid of integrate2D: the interval counts of its loops and its steps
integrate2D_grid(rMax, nR0, nPhi0) ==
    LET nR   == IF nR0 % 2 # 0 THEN nR0 + 1 ELSE nR0
        nPhi == IF nPhi0 % 2 # 0 THEN nPhi0 + 1 ELSE nPhi0
    IN  [nR |-> nR, nPhi |-> nPhi, dr |-> DivInt(rMax, nR), dPhi |-> DivInt(TWO_PI, nPhi)]

\* f is the function passed, applied to <<r, phi>>
integrate2D(f, rMax, nR0, nPhi0) ==
    LET nR   == integrate2D_grid(rMax, nR0, nPhi0).nR
        nPhi == integrate2D_grid(rMax, nR0, nPhi0).nPhi
        dr   == integrate2D_grid(rMax, nR0, nPhi0).dr
        dPhi == integrate2D_grid(rMax, nR0, nPhi0).dPhi
        wR(i)   == IF i = 0 \/ i = nR THEN 1 ELSE IF i % 2 = 1 THEN 4 ELSE 2
        wPhi(j) == IF j = 0 \/ j = nPhi THEN 1 ELSE IF j % 2 = 1 THEN 4 ELSE 2
        row(i) == SumFn([j \in 0..nPhi |-> wR(i) * wPhi(j) * f[<<i * dr, j * dPhi>>]], nPhi)
        total == SumFn([i \in 0..nR |-> row(i)], nR)
    IN  Mul(Mul(total, DivInt(dr, 3)), DivInt(dPhi, 3))

dot(a, b) == Mul(a[1], b[1]) + Mul(a[2], b[2]) + Mul(a[3], b[3])

norm(v) == Sqrt(Mul(v[1], v[1]) + Mul(v[2], v[2]) + Mul(v[3], v[3]))

normalize(v) ==
    Bind(norm(v), LAMBDA n :
        IF n < 1 THEN <<0, 0, 0>> ELSE <<Div(v[1], n), Div(v[2], n), Div(v[3], n)>>)

\* A variant of diskIntegrandA4 without the two visibility checks.
diskIntegrandA4_noVisibility(r, phi, handPos, cellNormal, sourceCenter, lampNormal) ==
    IF r < 1 THEN 0
    ELSE LET xPatch == sourceCenter[1] + Mul(r, Cos(phi))
             yPatch == sourceCenter[2]
             zPatch == sourceCenter[3] + Mul(r, Sin(phi))
         IN  Bind(<<handPos[1] - xPatch, handPos[2] - yPatch, handPos[3] - zPatch>>,
                  LAMBDA R :
                      LET R2 == dot(R, R)
                          Re == dot(R, lampNormal)
                          Rc == dot(R, cellNormal)
                      IN  IF R2 < 1 THEN 0
                          ELSE Mul(Div(Mul(Re, -Rc), Mul(R2, R2)), r))

diskIntegrandA4(r, phi, handPos, cellNormal, sourceCenter, lampNormal) ==
    IF r < 1 THEN 0
    ELSE LET xPatch == sourceCenter[1] + Mul(r, Cos(phi))
             yPatch == sourceCenter[2]
             zPatch == sourceCenter[3] + Mul(r, Sin(phi))
         IN  Bind(<<handPos[1] - xPatch, handPos[2] - yPatch, handPos[3] - zPatch>>,
                  LAMBDA R :
                      LET R2 == dot(R, R)
                          Re == dot(R, lampNormal)
                          Rc == dot(R, cellNormal)
                      IN  IF R2 < 1 THEN 0
                          ELSE IF Re <= 0 \/ Rc >= 0 THEN 0
                          ELSE Mul(Div(Mul(Re, -Rc), Mul(R2, R2)), r))

calculateDiskViewFactorA4(st, handPos, cellNormal, sourceCenter, sourceDiameter) ==
    LET normalizedCellNormal == normalize(cellNormal)
    IN  IF norm(normalizedCellNormal) < 1 THEN 0
        ELSE IF handPos[2] >= sourceCenter[2] THEN 0
        ELSE LET diskRadius == DivInt(sourceDiameter, 2)
                 integrand == [p \in Int \X Int |->
                                  diskIntegrandA4(p[1], p[2], handPos, normalizedCellNormal,
                                                  sourceCenter, LAMP_NORMAL)]
                 integralResult == integrate2D(integrand, diskRadius,
                                       st.integrationResolutionR,
                                       st.integrationResolutionPhi)
             IN  Div(integralResult, PI)

diskIntegrandParallel(r, phi, a, L) ==
    Bind(Pow2(Mul(r, r) - Mul(Mul(2 * a, r), Cos(phi)) + Mul(a, a) + Mul(L, L)),
         LAMBDA denom :
             IF denom < 1 THEN 0 ELSE Div(r, denom))

\* A variant of calculateDiskViewFactorParallel without the guard on L.
calculateDiskViewFactorParallel_noGuard(st, a, L, D) ==
    LET integrand == [p \in Int \X Int |-> diskIntegrandParallel(p[1], p[2], a, L)]
        integralResult == integrate2D(integrand, DivInt(D, 2),
                              st.integrationResolutionR,
                              st.integrationResolutionPhi)
    IN  Div(Mul(Mul(L, L), integralResult), PI)

calculateDiskViewFactorParallel(st, a, L, D) ==
    IF L <= 0 THEN 0
    ELSE LET integrand == [p \in Int \X Int |-> diskIntegrandParallel(p[1], p[2], a, L)]
             integralResult == integrate2D(integrand, DivInt(D, 2),
                                   st.integrationResolutionR,
                                   st.integrationResolutionPhi)
         IN  Div(Mul(Mul(L, L), integralResult), PI)

\* theta_values are display-only degrees and are not carried.
simulateSolarPowerExact(st, positions, normals, sourceCenter, sourceDiameter, model) ==
    LET effectiveDiameter == IF st.lightDiameterOverride # Null
                             THEN st.lightDiameterOverride[1] ELSE sourceDiameter
        H(i) == sourceCenter[2] - positions[i][2]
        dx(i) == sourceCenter[1] - positions[i][1]
        dz(i) == sourceCenter[3] - positions[i][3]
        a(i) == Sqrt(Mul(dx(i), dx(i)) + Mul(dz(i), dz(i)))
        viewFactor(i) ==
            IF model = "oriented" /\ i <= Len(normals)
            THEN calculateDiskViewFactorA4(st, positions[i],
                     <<-normals[i][1], -normals[i][2], -normals[i][3]>>,
                     sourceCenter, effectiveDiameter)
            ELSE calculateDiskViewFactorParallel(st, a(i), H(i), effectiveDiameter)
    IN  [power    |-> Tabulate(LAMBDA i : viewFactor(i), Len(positions)),
         a_values |-> Tabulate(LAMBDA i : a(i), Len(positions)),
         H_values |-> Tabulate(LAMBDA i : H(i), Len(positions))]

(***************************************************************************)
(* tests/validate.js and tests/generate_expected.js: their own copies of  *)
(* the simulation functions (the two files hold the same code).           *)
(***************************************************************************)
test_calculateDiskViewFactor(a, L, D) ==
    IF L <= 0 THEN 0
    ELSE LET R == DivInt(D, 2)
             integral == simpson2D(diskIntegrandFn, 0, R, 0, TWO_PI, a, L, FastResolution,
                                   FastResolution)
             F == Div(Mul(Mul(L, L), integral), PI)
         IN  Max2(0, Min2(S, F))

test_calculateOrientationAwareApprox(a, L, D, palmNormal, cellPos, lightPos) ==
    LET F_parallel == test_calculateDiskViewFactor(a, L, D)
        cellNormal == <<-palmNormal[1], -palmNormal[2], -palmNormal[3]>>
        vecToLamp  == <<lightPos[1] - cellPos[1], lightPos[2] - cellPos[2],
                        lightPos[3] - cellPos[3]>>
        dotProduct == Mul(cellNormal[1], vecToLamp[1]) + Mul(cellNormal[2], vecToLamp[2])
                      + Mul(cellNormal[3], vecToLamp[3])
        normCell == Sqrt(Mul(cellNormal[1], cellNormal[1]) + Mul(cellNormal[2], cellNormal[2])
                         + Mul(cellNormal[3], cellNormal[3]))
        normVec  == Sqrt(Mul(vecToLamp[1], vecToLamp[1]) + Mul(vecToLamp[2], vecToLamp[2])
                         + Mul(vecToLamp[3], vecToLamp[3]))
    IN  IF normCell < 1 \/ normVec < 1 THEN 0
        ELSE LET cosTheta == Div(dotProduct, Mul(normCell, normVec))
                 orientationFactor == Max2(0, cosTheta)
             IN  Mul(F_parallel, orientationFactor)

\* the grid of calculateExactViewFactor: the steps are taken from the requested
\* counts, then the counts of the loops are made even
test_calculateExactViewFactor_grid(D, nR0, nPhi0) ==
    LET radius == DivInt(D, 2)
        dr     == DivInt(radius, nR0)
        dPhi   == DivInt(TWO_PI, nPhi0)
        nR     == IF nR0 % 2 # 0 THEN nR0 + 1 ELSE nR0
        nPhi   == IF nPhi0 % 2 # 0 THEN nPhi0 + 1 ELSE nPhi0
    IN  [nR |-> nR, nPhi |-> nPhi, dr |-> dr, dPhi |-> dPhi]

\* F of calculateExactViewFactor, before it is clamped.  dr and dPhi are taken
\* from the requested counts, before the counts are made even
test_calculateExactViewFactor_F(cellPos, palmNormal, lampPos, lampNormal, D, nR0, nPhi0) ==
    LET cellNormal == <<-palmNormal[1], -palmNormal[2], -palmNormal[3]>>
        dr     == test_calculateExactViewFactor_grid(D, nR0, nPhi0).dr
        dPhi   == test_calculateExactViewFactor_grid(D, nR0, nPhi0).dPhi
        nR     == test_calculateExactViewFactor_grid(D, nR0, nPhi0).nR
        nPhi   == test_calculateExactViewFactor_grid(D, nR0, nPhi0).nPhi
        wR(i)   == IF i = 0 \/ i = nR THEN 1 ELSE IF i % 2 = 1 THEN 4 ELSE 2
        wPhi(j) == IF j = 0 \/ j = nPhi THEN 1 ELSE IF j % 2 = 1 THEN 4 ELSE 2
        node(i, j) ==
            LET r   == i * dr
                phi == j * dPhi
            IN  Bind(<<cellPos[1] - (lampPos[1] + Mul(r, Cos(phi))),
                       cellPos[2] - lampPos[2],
                       cellPos[3] - (lampPos[3] + Mul(r, Sin(phi)))>>,
                     LAMBDA R_vec :
                         LET R2 == dot(R_vec, R_vec)
                             Re == dot(R_vec, lampNormal)
                             Rc == dot(R_vec, cellNormal)
                         IN  IF r < 1 THEN 0
                             ELSE IF R2 < 1 THEN 0
                             ELSE IF Re <= 0 \/ Rc >= 0 THEN 0
                             ELSE wR(i) * wPhi(j) * Mul(Div(Mul(Re, -Rc), Mul(R2, R2)), r))
        row(i) == SumFn([j \in 0..nPhi |-> node(i, j)], nPhi)
        total  == SumFn([i \in 0..nR |-> row(i)], nR)
    IN  Div(DivInt(Mul(Mul(total, dr), dPhi), 9), PI)

test_calculateExactViewFactor(cellPos, palmNormal, lampPos, lampNormal, D, nR0, nPhi0) ==
    LET F == test_calculateExactViewFactor_F(cellPos, palmNormal, lampPos, lampNormal, D,
                                             nR0, nPhi0)
    IN  Max2(0, Min2(S, F))

test_calculateKappa(viewFactors, realPower) ==
    LET numerator   == SumSeq(Tabulate(LAMBDA i : viewFactors[i] * realPower[i], Len(viewFactors)))
        denominator == SumSeq(Tabulate(LAMBDA i : viewFactors[i] * viewFactors[i], Len(viewFactors)))
    IN  IF denominator = 0 THEN S ELSE Div(numerator, denominator)

\* results is held as the two series it is mapped to, real and sim, both of
\* length n; rmse is in the units of the series
test_computeMetrics(real, sim) ==
    LET n == Len(real)
    IN  IF n = 0 THEN [rmse |-> NaN, r2 |-> NaN, pearson |-> NaN]
        ELSE LET mse      == DivInt(SumSeq(Tabulate(LAMBDA i : (real[i] - sim[i])
                                                       * (real[i] - sim[i]), n)), n)
                 meanReal == DivInt(SumSeq(real), n)
                 ssRes    == SumSeq(Tabulate(LAMBDA i : (real[i] - sim[i])
                                                 * (real[i] - sim[i]), n))
                 ssTot    == SumSquaredDiff(real, meanReal)
                 meanSim  == DivInt(SumSeq(sim), n)
                 numPearson == SumSeq(Tabulate(LAMBDA i : (real[i] - meanReal)
                                                   * (sim[i] - meanSim), n))
                 denReal  == ISqrtIn(SumSquaredDiff(real, meanReal), 0, 46340)
                 denSim   == ISqrtIn(SumSquaredDiff(sim, meanSim), 0, 46340)
             IN  [rmse    |-> Num(ISqrtIn(mse, 0, 46340)),
                  r2      |-> IF ssTot = 0
                              THEN (IF ssRes = 0 THEN NaN ELSE NegInfinity)
                              ELSE Num(S - Div(ssRes, ssTot)),
                  pearson |-> IF denReal * denSim = 0 THEN NaN
                              ELSE Num(Div(numPearson, denReal * denSim))]

\* validate.js: 1 microwatt, 0.001, 0.001 and 1 % in fixed-point steps
TOLERANCES == [rmse_uW |-> S, r2 |-> 1, pearson |-> 1, power_relative |-> 10]

\* Math.abs(a - b) <= tol; false when either value is NaN or infinite
Within(a, b, tol) ==
    /\ a.kind = "number"
    /\ b.kind = "number"
    /\ Abs(a.v - b.v) <= tol

\* the body of main's inner loop for one (trajectory, configuration): the
\* simulated results (real, sim) against the expected metrics; TRUE when the
\* test is counted as passed
test_validate(real, sim, expectedMetrics) ==
    LET actualMetrics == test_computeMetrics(real, sim)
    IN  /\ Within(actualMetrics.rmse, expectedMetrics.rmse, TOLERANCES.rmse_uW)
        /\ Within(actualMetrics.r2, expectedMetrics.r2, TOLERANCES.r2)
        /\ Within(actualMetrics.pearson, expectedMetrics.pearson, TOLERANCES.pearson)

\* the position at offset off below the default lamp centre
At(off) == <<SOURCE_CENTER[1] - off[1], SOURCE_CENTER[2] - off[2], SOURCE_CENTER[3] - off[3]>>

(***************************************************************************)
(* main.js: class SolarTrackDemo.  Powers are in microwatts (the code      *)
(* holds watts and multiplies by 1e-6).  The DOM, the chart and the 3D     *)
(* scene are written by the handlers and never read back; they are left    *)
(* out.                                                                    *)
(***************************************************************************)
MaxLoads == 2

\* user inputs per session
MaxEvents == 2

PresetNames == {"Circle", "Triangle"}

\* data/<name>.json as served: two samples below the lamp, palm down, with
\* measured power and the simulated series computed offline
PresetJSON(name) ==
    [name |-> name,
     positions |-> <<At(<<0, 1024, 0>>), At(<<768, 1024, 0>>)>>,
     normals |-> <<<<0, -1024, 0>>, <<0, -1024, 0>>>>,
     real_power |-> Some(IF name = "Circle" THEN <<40960, 30720>> ELSE <<51200, 20480>>),
     sim_oriented |-> <<40000, 31000>>,
     sim_parallel |-> <<39000, 32000>>,
     light_source |-> [position |-> SOURCE_CENTER, diameter |-> SOURCE_DIAMETER]]

\* what csvUploader.processCSV hands to loadUploadedGesture: a file with a
\* complete power column, one without (real_power null), one whose power
\* is zero in every row (the product v_dc * i_dc of a cell that delivers
\* nothing), and one recorded above the lamp plane (every view factor is zero)
UploadedFiles ==
    {[name |-> "Uploaded: a.csv",
      positions |-> <<At(<<0, 1024, 0>>), At(<<768, 1024, 0>>)>>,
      normals |-> <<<<0, -1024, 0>>, <<0, -1024, 0>>>>,
      real_power |-> Some(<<40960, 20480>>)],
     [name |-> "Uploaded: b.csv",
      positions |-> <<At(<<0, 1024, 0>>), At(<<768, 256, 0>>)>>,
      normals |-> <<<<0, -1024, 0>>, <<0, -1024, 0>>>>,
      real_power |-> Null],
     [name |-> "Uploaded: c.csv",
      positions |-> <<At(<<0, 1024, 0>>), At(<<768, 1024, 0>>)>>,
      normals |-> <<<<0, -1024, 0>>, <<0, -1024, 0>>>>,
      real_power |-> Some(<<0, 0>>)],
     [name |-> "Uploaded: d.csv",
      positions |-> <<At(<<0, -256, 0>>), At(<<768, -256, 0>>)>>,
      normals |-> <<<<0, -1024, 0>>, <<0, -1024, 0>>>>,
      real_power |-> Some(<<40960, 20480>>)]}

\* what the drawing handler hands to handleCustomTrajectory (normals are [0,-1,0])
DrawnTrajectories ==
    {[positions |-> <<At(<<0, 1024, 0>>), At(<<768, 1024, 0>>)>>,
      normals |-> <<<<0, -1024, 0>>, <<0, -1024, 0>>>>],
     [positions |-> <<At(<<0, 1024, 0>>)>>,
      normals |-> <<<<0, -1024, 0>>>>]}

\* slider inputs: axis and value
SliderInputs == {<<1, SOURCE_CENTER[1]>>, <<1, SOURCE_CENTER[1] + 512>>}

\* settings modal inputs: accuracy, diameter, radial and angular grid
ModalInputs ==
    {[accuracy |-> "exact", diameter |-> 1024, gridR |-> 4, gridPhi |-> 4],
     [accuracy |-> "fast", diameter |-> 0, gridR |-> 4, gridPhi |-> 4]}

\* the 20-80 microwatt band of handleCustomTrajectory, recomputeSimulation and
\* loadUploadedGesture (scaleToRange)
scaleToRange(power) ==
    LET minP == MinSeq(power)
        maxP == MaxSeq(power)
        range == maxP - minP
    IN  IF range > 0
        THEN Tabulate(LAMBDA i : 20 * S + 60 * Div(power[i] - minP, range), Len(power))
        ELSE Tabulate(LAMBDA i : 50 * S, Len(power))

\* the outcome of a handler: its name, the model and view factors of the
\* simulation it ran (result.power), and whether it returned or threw
Ran(op, model, F, ok) == [op |-> op, model |-> model, F |-> F, ok |-> ok]

checkLightPositionModified(light, original) ==
    \/ Abs(light[1] - original[1]) > 1
    \/ Abs(light[2] - original[2]) > 1
    \/ Abs(light[3] - original[3]) > 1

updateAccuracyVisibility(model, accuracy) ==
    IF model = "parallel" /\ accuracy = "exact" THEN "fast" ELSE accuracy

\* this.customAnimationSpeed, 0.3
customAnimationSpeed == 307

\* the speed slider, moved to 3x (it starts at 1x)
SpeedInputs == {3 * S}

\* the animation fields as the constructor leaves them.  currentFrame and the
\* speeds are in steps of 1/1024 frame; rafQueue holds the ids of the
\* callbacks requestAnimationFrame has been given and that have neither run
\* nor been cancelled; stateIndex is the index last used by updateStateDisplay
\* for its lookups into positions, normals and current_sim.
ConstructedPlayback ==
    [isPlaying |-> FALSE, currentFrame |-> 0, animationSpeed |-> S,
     animationId |-> Null, rafQueue |-> {}, stateIndex |-> Null]

\* num_samples of gesture data gd
num_samples(gd) == Len(gd.positions)

\* gd is currentGestureData (Null or Some(data)); index is in steps of 1/1024
updateStateDisplay(p, gd, index) ==
    IF gd = Null \/ index >= num_samples(gd[1]) * S
    THEN p
    ELSE [p EXCEPT !.stateIndex = Some(index)]

\* index = Math.floor(this.currentFrame)
updateFrame(p, gd) ==
    IF gd = Null THEN p
    ELSE updateStateDisplay(p, gd, (p.currentFrame \div S) * S)

\* A variant of pause that leaves the pending callback in place.
pause_noCancel(p) == [p EXCEPT !.isPlaying = FALSE, !.animationId = Null]

pause(p) ==
    [p EXCEPT !.isPlaying = FALSE,
              !.rafQueue = IF p.animationId # Null THEN @ \ {p.animationId[1]} ELSE @,
              !.animationId = Null]

reset(p, gd) == updateFrame([pause(p) EXCEPT !.currentFrame = 0], gd)

\* the id requestAnimationFrame returns: one that names no pending callback
\* and is not the id held
requestAnimationFrame(p) ==
    CHOOSE id \in 1..(Cardinality(p.rafQueue) + 2) :
        id \notin p.rafQueue /\ p.animationId # Some(id)

animate(p, gd) ==
    IF ~p.isPlaying \/ gd = Null THEN p
    ELSE LET speed == IF gd[1].name = "Custom"
                      THEN Mul(p.animationSpeed, customAnimationSpeed)
                      ELSE p.animationSpeed
             frame == IF p.currentFrame + speed >= num_samples(gd[1]) * S
                      THEN 0 ELSE p.currentFrame + speed
         IN  [updateFrame([p EXCEPT !.currentFrame = frame], gd)
                 EXCEPT !.animationId = Some(requestAnimationFrame(p)),
                        !.rafQueue = @ \cup {requestAnimationFrame(p)}]

play(p, gd) ==
    IF p.isPlaying THEN p ELSE animate([p EXCEPT !.isPlaying = TRUE], gd)

\* the last statement of recomputeSimulation
recomputedStateDisplay(p, gd) ==
    IF p.currentFrame < num_samples(gd) * S
    THEN updateStateDisplay(p, Some(gd), p.currentFrame)
    ELSE p

\* recomputeSimulation on gesture data gd with the fields as the calling
\* handler has left them: the new gesture data and the outcome
recomputeSimulation(gd, model, accuracy, light, st) ==
    LET useExact == accuracy = "exact" /\ model = "oriented"
        effectiveDiameter == IF st.lightDiameterOverride # Null
                             THEN st.lightDiameterOverride[1]
                             ELSE gd.light_source.diameter
        byKappa == gd.scaling_method = Some("kappa") /\ gd.kappa # Null /\ gd.kappa # Some(0)
    IN  Bind(IF useExact
             THEN simulateSolarPowerExact(st, gd.positions, gd.normals, light,
                                          effectiveDiameter, model)
             ELSE simulateSolarPower(gd.positions, gd.normals, model, light,
                                     effectiveDiameter),
             LAMBDA result :
                 LET scaled ==
                         IF gd.name = "Custom" THEN Return(scaleToRange(result.power))
                         ELSE IF byKappa
                         THEN Return(applyKappaScaling(result.power, gd.kappa[1]))
                         ELSE applyPerSegmentScaling(result.power, gd.real_power)
                     raw ==
                         IF gd.name # "Custom" /\ byKappa
                         THEN IF model = "oriented"
                              THEN [gd EXCEPT !.raw_view_factors_oriented = Some(result.power)]
                              ELSE [gd EXCEPT !.raw_view_factors_parallel = Some(result.power)]
                         ELSE gd
                 IN  IF scaled.ok
                     THEN [gd |-> [raw EXCEPT !.current_sim = scaled.value],
                           run |-> Ran("recomputeSimulation", model, result.power, TRUE)]
                     ELSE [gd |-> raw,
                           run |-> Ran("recomputeSimulation", model, result.power, FALSE)])

\* recomputeSimulation as the last call of a handler
Recomputed(model, accuracy, light, st) ==
    IF currentGestureData = Null
    THEN UNCHANGED <<currentGestureData, run, playback>>
    ELSE \E r \in {recomputeSimulation(currentGestureData[1], model, accuracy, light, st)} :
            /\ currentGestureData' = Some(r.gd)
            /\ run' = r.run
            /\ playback' = IF r.run.ok THEN recomputedStateDisplay(playback, r.gd)
                           ELSE playback

EngineIdle == args = [fn |-> "none"] /\ log = <<>>

\* a handler runs on a user input
UserInput == events < MaxEvents /\ events' = events + 1

\* loadUploadedGesture from the simulations to the new gesture data: the
\* outcome, and the gesture data unless calculateKappa threw
uploadedGesture(gestureData, accuracy, light, st) ==
    LET numSamples == Len(gestureData.positions)
        useExact == accuracy = "exact"
        hasPower == /\ gestureData.real_power # Null
                    /\ Len(gestureData.real_power[1]) = numSamples
    IN  Bind(IF useExact
             THEN simulateSolarPowerExact(st, gestureData.positions, gestureData.normals,
                                          light, SOURCE_DIAMETER, "oriented")
             ELSE simulateSolarPower(gestureData.positions, gestureData.normals, "oriented",
                                     light, SOURCE_DIAMETER),
             LAMBDA resultOriented :
        Bind(simulateSolarPower(gestureData.positions, gestureData.normals, "parallel",
                                light, SOURCE_DIAMETER),
             LAMBDA resultParallel :
                 LET fit == calculateKappa(resultOriented.power, gestureData.real_power[1])
                     kappa == fit.value
                     scaledOriented ==
                         IF hasPower THEN applyKappaScaling(resultOriented.power, kappa)
                         ELSE scaleToRange(resultOriented.power)
                     scaledParallel ==
                         IF hasPower THEN applyKappaScaling(resultParallel.power, kappa)
                         ELSE scaleToRange(resultParallel.power)
                 IN  IF hasPower /\ ~fit.ok
                     THEN [run |-> Ran("loadUploadedGesture", "oriented",
                                       resultOriented.power, FALSE)]
                     ELSE [run |-> Ran("loadUploadedGesture", "oriented",
                                       resultOriented.power, TRUE),
                           gd |-> [name |-> gestureData.name,
                                   positions |-> gestureData.positions,
                                   normals |-> gestureData.normals,
                                   real_power |-> gestureData.real_power,
                                   sim_oriented |-> scaledOriented,
                                   sim_parallel |-> scaledParallel,
                                   current_sim |-> scaledOriented,
                                   light_source |-> [position |-> light,
                                                     diameter |-> SOURCE_DIAMETER],
                                   kappa |-> IF hasPower THEN Some(kappa) ELSE Null,
                                   scaling_method |-> IF hasPower THEN Some("kappa")
                                                      ELSE Some("range"),
                                   raw_view_factors_oriented |-> Some(resultOriented.power),
                                   raw_view_factors_parallel |-> Some(resultParallel.power),
                                   isUploaded |-> TRUE]]))

loadUploadedGesture(gestureData) ==
    /\ uploadedGestureCache' = Some(gestureData)
    /\ \E r \in {uploadedGesture(gestureData, currentAccuracy, lightPosition, settings)} :
            /\ run' = r.run
            /\ IF r.run.ok
               THEN /\ currentGestureData' = Some(r.gd)
                    /\ playback' = updateFrame([pause(playback) EXCEPT !.currentFrame = 0],
                                               Some(r.gd))
               ELSE /\ UNCHANGED currentGestureData
                    /\ playback' = pause(playback)
    /\ UNCHANGED <<settings, currentModel, currentAccuracy, lightPosition,
                   originalLightPosition, lightPositionModified,
                   fetches, inflight, applied, args, log>>

\* csvUploader.processCSV: a parsed file is handed to the application
UploadCSV == UserInput /\ \E f \in UploadedFiles : loadUploadedGesture(f)

\* the gesture selector: loadGesture up to its await
loadGesture ==
    UserInput /\ \E gestureName \in PresetNames \cup {"Custom", "Uploaded"} :
        CASE gestureName = "Custom" ->
                /\ currentModel' = "parallel"
                /\ playback' = pause(playback)
                /\ run' = Ran("loadGesture", "none", <<>>, TRUE)
                /\ UNCHANGED <<settings, currentGestureData, uploadedGestureCache,
                               currentAccuracy, lightPosition, originalLightPosition,
                               lightPositionModified, fetches, inflight, applied, args, log>>
          [] gestureName = "Uploaded" ->
                IF uploadedGestureCache # Null
                THEN loadUploadedGesture(uploadedGestureCache[1])
                ELSE /\ run' = Ran("loadGesture", "none", <<>>, TRUE)
                     /\ UNCHANGED <<settings, currentGestureData, uploadedGestureCache,
                                    currentModel, currentAccuracy, lightPosition, playback,
                                    originalLightPosition, lightPositionModified,
                                    fetches, inflight, applied, args, log>>
          [] OTHER ->
                /\ Len(fetches) < MaxLoads
                /\ fetches' = Append(fetches, gestureName)
                /\ inflight' = inflight \cup {Len(fetches) + 1}
                /\ playback' = pause(playback)
                /\ run' = Ran("loadGesture", "none", <<>>, TRUE)
                /\ UNCHANGED <<settings, currentGestureData, uploadedGestureCache,
                               currentModel, currentAccuracy, lightPosition,
                               originalLightPosition, lightPositionModified, applied,
                               args, log>>

\* loadGesture after its await, the response being ok: the JSON replaces the
\* gesture data, the light returns to the gesture's position, and
\* updateVisualization picks the series of the model selected
loadGestureResolved ==
    \E k \in inflight :
        LET json == PresetJSON(fetches[k])
        IN  /\ currentGestureData' = Some(
                  [name |-> json.name,
                   positions |-> json.positions,
                   normals |-> json.normals,
                   real_power |-> json.real_power,
                   sim_oriented |-> json.sim_oriented,
                   sim_parallel |-> json.sim_parallel,
                   current_sim |-> IF currentModel = "oriented"
                                   THEN json.sim_oriented ELSE json.sim_parallel,
                   light_source |-> json.light_source,
                   kappa |-> Null,
                   scaling_method |-> Null,
                   raw_view_factors_oriented |-> Null,
                   raw_view_factors_parallel |-> Null,
                   isUploaded |-> FALSE])
            /\ lightPosition' = json.light_source.position
            /\ originalLightPosition' = json.light_source.position
            /\ lightPositionModified' = FALSE
            /\ inflight' = inflight \ {k}
            /\ applied' = Append(applied, k)
            /\ playback' = reset(playback, currentGestureData')
            /\ run' = Ran("loadGestureResolved", "none", <<>>, TRUE)
            /\ UNCHANGED <<settings, uploadedGestureCache, currentModel, currentAccuracy,
                           fetches, args, log, events>>

\* loadGesture after its await, the fetch having failed: the error is caught
\* and alerted
loadGestureFailed ==
    \E k \in inflight :
        /\ inflight' = inflight \ {k}
        /\ run' = Ran("loadGestureFailed", "none", <<>>, TRUE)
        /\ UNCHANGED <<playback, settings, currentGestureData, uploadedGestureCache, currentModel,
                       currentAccuracy, lightPosition, originalLightPosition,
                       lightPositionModified, fetches, applied, args, log, events>>

handleCustomTrajectory ==
    UserInput /\ \E trajectory3D \in DrawnTrajectories :
        \E result \in {simulateSolarPower(trajectory3D.positions, trajectory3D.normals,
                                         currentModel, SOURCE_CENTER, SOURCE_DIAMETER)} :
            \E scaledPower \in {scaleToRange(result.power)} :
                /\ currentGestureData' = Some(
                      [name |-> "Custom",
                       positions |-> trajectory3D.positions,
                       normals |-> trajectory3D.normals,
                       real_power |-> Null,
                       sim_oriented |-> scaledPower,
                       sim_parallel |-> scaledPower,
                       current_sim |-> scaledPower,
                       light_source |-> [position |-> SOURCE_CENTER,
                                         diameter |-> SOURCE_DIAMETER],
                       kappa |-> Null,
                       scaling_method |-> Null,
                       raw_view_factors_oriented |-> Null,
                       raw_view_factors_parallel |-> Null,
                       isUploaded |-> FALSE])
                /\ lightPosition' = SOURCE_CENTER
                /\ originalLightPosition' = SOURCE_CENTER
                /\ lightPositionModified' = FALSE
                /\ playback' = reset(playback, currentGestureData')
                /\ run' = Ran("handleCustomTrajectory", currentModel, result.power, TRUE)
                /\ UNCHANGED <<settings, uploadedGestureCache, currentModel, currentAccuracy,
                               fetches, inflight, applied, args, log>>

\* the model radio buttons
modelRadioChange ==
    UserInput /\ \E value \in {"oriented", "parallel"} :
        /\ currentModel' = value
        /\ currentAccuracy' = updateAccuracyVisibility(value, currentAccuracy)
        /\ Recomputed(value, updateAccuracyVisibility(value, currentAccuracy),
                      lightPosition, settings)
        /\ UNCHANGED <<settings, uploadedGestureCache, lightPosition,
                       originalLightPosition, lightPositionModified,
                       fetches, inflight, applied, args, log>>

\* the mobile model buttons
mobileModelClick ==
    UserInput /\ \E model \in {"oriented", "parallel"} :
        /\ currentModel' = model
        /\ Recomputed(model, currentAccuracy, lightPosition, settings)
        /\ UNCHANGED <<settings, uploadedGestureCache, currentAccuracy, lightPosition,
                       originalLightPosition, lightPositionModified,
                       fetches, inflight, applied, args, log>>

\* the light position sliders, then updateLightPosition
lightSliderInput ==
    UserInput /\ \E in \in SliderInputs :
        LET light == [lightPosition EXCEPT ![in[1]] = in[2]]
        IN  /\ lightPosition' = light
            /\ lightPositionModified' = checkLightPositionModified(light, originalLightPosition)
            /\ Recomputed(currentModel, currentAccuracy, light, settings)
            /\ UNCHANGED <<settings, uploadedGestureCache, currentModel, currentAccuracy,
                           originalLightPosition, fetches, inflight, applied, args, log>>

applySettings ==
    UserInput /\ \E m \in ModalInputs :
        IF m.diameter <= 0 \/ m.gridR < 4 \/ m.gridPhi < 4
        THEN /\ run' = Ran("applySettings", "none", <<>>, TRUE)
             /\ UNCHANGED <<playback, settings, currentGestureData, uploadedGestureCache, currentModel,
                            currentAccuracy, lightPosition, originalLightPosition,
                            lightPositionModified, fetches, inflight, applied, args, log>>
        ELSE LET st == updateSettings(settings,
                           [integrationResolutionR |-> Some(m.gridR),
                            integrationResolutionPhi |-> Some(m.gridPhi),
                            lightDiameterOverride |-> Some(Some(m.diameter))])
             IN  /\ currentAccuracy' = m.accuracy
                 /\ settings' = st
                 /\ Recomputed(currentModel, m.accuracy, lightPosition, st)
                 /\ UNCHANGED <<uploadedGestureCache, currentModel, lightPosition,
                                originalLightPosition, lightPositionModified,
                                fetches, inflight, applied, args, log>>

\* what the kappa modal's Apply button reads: the method chosen and the value
\* typed (or computed from the physical parameters)
KappaInputs ==
    {[method |-> "calculated", value |-> 0],
     [method |-> "manual", value |-> 50 * S],
     [method |-> "manual", value |-> 0]}

\* reapplyKappaScaling on gesture data gd: the new gesture data and the outcome
reapplyKappaScaling(gd, model) ==
    IF gd.kappa = Null \/ gd.kappa = Some(0)
    THEN [gd |-> gd, run |-> Ran("applyKappa", "none", <<>>, TRUE)]
    ELSE LET rawViewFactors == IF model = "oriented"
                               THEN gd.raw_view_factors_oriented[1]
                               ELSE gd.raw_view_factors_parallel[1]
             scaledPower == applyKappaScaling(rawViewFactors, gd.kappa[1])
         IN  [gd |-> [gd EXCEPT !.current_sim = scaledPower,
                                !.sim_oriented = IF model = "oriented" THEN scaledPower ELSE @,
                                !.sim_parallel = IF model = "oriented" THEN @ ELSE scaledPower],
              run |-> Ran("applyKappa", model, rawViewFactors, TRUE)]

\* the kappa modal, which opens only on gesture data that holds a kappa, and
\* its Apply button
applyKappa ==
    /\ UserInput
    /\ currentGestureData # Null
    /\ currentGestureData[1].kappa # Null
    /\ \E in \in KappaInputs :
           IF in.method = "manual" /\ in.value <= 0
           THEN /\ run' = Ran("applyKappa", "none", <<>>, TRUE)
                /\ UNCHANGED <<currentGestureData, playback>>
           ELSE \E r \in {reapplyKappaScaling(
                              IF in.method = "manual"
                              THEN [currentGestureData[1] EXCEPT !.kappa = Some(in.value)]
                              ELSE currentGestureData[1],
                              currentModel)} :
                    /\ currentGestureData' = Some(r.gd)
                    /\ run' = r.run
                    /\ playback' = IF r.gd.kappa = Null \/ r.gd.kappa = Some(0)
                                   THEN playback
                                   ELSE updateStateDisplay(playback, Some(r.gd),
                                                           playback.currentFrame)
    /\ UNCHANGED <<settings, uploadedGestureCache, currentModel, currentAccuracy,
                   lightPosition, originalLightPosition, lightPositionModified,
                   fetches, inflight, applied, args, log>>

\* the constructor's field values
Constructed ==
    /\ currentGestureData = Null
    /\ uploadedGestureCache = Null
    /\ currentModel = "oriented"
    /\ currentAccuracy = "fast"
    /\ lightPosition = SOURCE_CENTER
    /\ originalLightPosition = SOURCE_CENTER
    /\ lightPositionModified = FALSE
    /\ playback = ConstructedPlayback

\* the play, pause and reset buttons (desktop and mobile)
playClick ==
    /\ playback' = play(playback, currentGestureData)
    /\ run' = Ran("play", "none", <<>>, TRUE)
    /\ UNCHANGED <<settings, currentGestureData, uploadedGestureCache, currentModel,
                   currentAccuracy, lightPosition, originalLightPosition,
                   lightPositionModified, fetches, inflight, applied, events, args, log>>

pauseClick ==
    /\ playback' = pause(playback)
    /\ run' = Ran("pause", "none", <<>>, TRUE)
    /\ UNCHANGED <<settings, currentGestureData, uploadedGestureCache, currentModel,
                   currentAccuracy, lightPosition, originalLightPosition,
                   lightPositionModified, fetches, inflight, applied, events, args, log>>

resetClick ==
    /\ playback' = reset(playback, currentGestureData)
    /\ run' = Ran("reset", "none", <<>>, TRUE)
    /\ UNCHANGED <<settings, currentGestureData, uploadedGestureCache, currentModel,
                   currentAccuracy, lightPosition, originalLightPosition,
                   lightPositionModified, fetches, inflight, applied, events, args, log>>

\* the speed slider
speedSliderInput ==
    /\ \E value \in SpeedInputs : playback' = [playback EXCEPT !.animationSpeed = value]
    /\ run' = Ran("speed", "none", <<>>, TRUE)
    /\ UNCHANGED <<settings, currentGestureData, uploadedGestureCache, currentModel,
                   currentAccuracy, lightPosition, originalLightPosition,
                   lightPositionModified, fetches, inflight, applied, events, args, log>>

\* the browser runs a pending animation-frame callback, () => this.animate()
animationFrame ==
    /\ \E id \in playback.rafQueue :
           playback' = animate([playback EXCEPT !.rafQueue = @ \ {id}], currentGestureData)
    /\ run' = Ran("animate", "none", <<>>, TRUE)
    /\ UNCHANGED <<settings, currentGestureData, uploadedGestureCache, currentModel,
                   currentAccuracy, lightPosition, originalLightPosition,
                   lightPositionModified, fetches, inflight, applied, events, args, log>>

\* after the constructor and init() up to its await: loadGesture('Circle') is in flight
Init ==
    /\ settings = DefaultSettings
    /\ EngineIdle
    /\ Constructed
    /\ fetches = <<"Circle">>
    /\ inflight = {1}
    /\ applied = <<>>
    /\ events = 0
    /\ run = Ran("init", "none", <<>>, TRUE)

Next ==
    \/ loadGesture
    \/ loadGestureResolved
    \/ loadGestureFailed
    \/ UploadCSV
    \/ handleCustomTrajectory
    \/ modelRadioChange
    \/ mobileModelClick
    \/ lightSliderInput
    \/ applySettings
    \/ applyKappa
    \/ playClick
    \/ pauseClick
    \/ resetClick
    \/ speedSliderInput
    \/ animationFrame

appVars == <<currentGestureData, uploadedGestureCache, currentModel, currentAccuracy,
             lightPosition, originalLightPosition, lightPositionModified,
             fetches, inflight, applied, events, run, playback>>

vars == <<settings, args, log, appVars>>

Spec == Init /\ [][Next]_vars

(***************************************************************************)
(* Engine calls: one entry point is called with one argument list, up to  *)
(* MaxCalls times, with updateSettings / resetSettings in between.        *)
(***************************************************************************)
MaxCalls == 2

MaxSamples == 2

\* Offsets lamp centre - hand: below the centre, near the rim and close to the
\* lamp plane, oblique at 45 degrees (its length, the square root of 0.5, is
\* not representable), at the centre, above the plane, level with it.
EngineOffsets == {<<0, 1024, 0>>, <<768, 256, 0>>, <<512, 512, 0>>,
                  <<0, 0, 0>>, <<0, -256, 0>>, <<512, 0, 0>>}

\* palm normals: palm down, zero, palm up, and pointing away from the lamp along
\* the oblique offset (the cell then faces the lamp centre exactly)
EngineNormals == {<<0, -1024, 0>>, <<0, 0, 0>>, <<0, 1024, 0>>, <<-512, -512, 0>>}

EngineDiameters == {1024, SOURCE_DIAMETER}

EngineLaterals == {0, 512, 768}

EngineHeights == {-256, 0, 256, 1024}

\* the interval count Simpson's rule needs for a request of n
NextEven(n) == IF n % 2 # 0 THEN n + 1 ELSE n

\* interval counts handed to the routines that take them as parameters
EngineGrids == {<<4, 4>>, <<5, 3>>}

\* integrands handed to integrate2D on the grid of n intervals: the constants
\* 0, 1 and 3, and for each node (i, j) of the grid the integrand that is 1 at
\* that node and 0 elsewhere
EngineIntegrands(n) ==
    {[kind |-> "constant", c |-> c, i |-> 0, j |-> 0] : c \in {0, S, 3 * S}}
    \cup {[kind |-> "node", c |-> S, i |-> i, j |-> j] :
            i \in 0..NextEven(n[1]), j \in 0..NextEven(n[2])}

\* the function f(r, phi) of the integrand x on the grid of integrate2D(f, rMax, nR, nPhi)
Integrand(x, rMax, nR, nPhi) ==
    LET dr   == DivInt(rMax, NextEven(nR))
        dPhi == DivInt(TWO_PI, NextEven(nPhi))
    IN  [p \in Int \X Int |->
            IF x.kind = "constant" \/ p = <<x.i * dr, x.j * dPhi>> THEN x.c ELSE 0]

EngineSamples == {<<At(o), n>> : o \in EngineOffsets, n \in EngineNormals}

\* samples of the exact simulation's one-sample trajectories: palm down and
\* zero normal at every offset
EngineExactSamples == {<<At(o), n>> : o \in EngineOffsets, n \in {<<0, -1024, 0>>, <<0, 0, 0>>}}

\* a trajectory is one sample followed by up to MaxSamples - 1 copies of a fixed one
EngineTails == UNION {[1..n -> {<<At(<<0, 1024, 0>>), <<0, -1024, 0>>>>}] :
                        n \in 0..(MaxSamples - 1)}

EngineTrajectories == {<<x>> \o t : x \in EngineSamples, t \in EngineTails}

Positions(traj) == Tabulate(LAMBDA i : traj[i][1], Len(traj))

Normals(traj) == Tabulate(LAMBDA i : traj[i][2], Len(traj))

EngineViewFactors == {0, 8, 32}

EngineSeries(V) == UNION {[1..n -> V] : n \in 1..MaxSamples}

\* measured series for a view-factor series F: three times F, a constant 24
\* microwatt-steps, a ramp of 1, 2, ... microwatts, a few steps not
\* proportional to F (1, 10, 15, ...), and (for the length check) the constant
\* series one longer
EnginePowers(F) ==
    {Tabulate(LAMBDA i : 3 * F[i], Len(F)),
     Tabulate(LAMBDA i : 24, Len(F)),
     Tabulate(LAMBDA i : S * i, Len(F)),
     Tabulate(LAMBDA i : IF i = 1 THEN 1 ELSE 5 * i, Len(F)),
     Tabulate(LAMBDA i : 24, Len(F) + 1)}

\* runs of the validator on a measured series of 2 and 4 microwatts whose
\* frozen simulated series is the same: the engine reproduces it, is 2 % off
\* on the first sample, or is 50 % off on it
EngineValidations ==
    {[fn |-> "test_validate", real |-> <<2048, 4096>>, expected |-> <<2048, 4096>>, sim |-> sim] :
        sim \in {<<2048, 4096>>, <<2089, 4096>>, <<3072, 4096>>}}

\* radial positions and angles of lamp patches: the centre, half the radius and
\* the rim; along +x, +z and -x
EngineRadii == {0, DivInt(SOURCE_DIAMETER, 4), DivInt(SOURCE_DIAMETER, 2)}

EngineAngles == {0, DivInt(PI, 2), PI}

\* the metrics functions of simulator.js, called as (real, sim)
EngineMetrics == {"calculateRMSE", "calculateR2", "calculateCorrelation"}

\* column || fallback on a parsed CSV cell: an absent cell and the number 0
\* are both falsy
OrDefault(cell, fallback) == IF cell = Null \/ cell[1] = 0 THEN fallback ELSE cell[1]

\* CSVUploader.extractData on the normal columns of one row (the same in all
\* four column formats): the row's cells with their fallbacks, normalized
\* when longer than 0.01 and replaced by palm down otherwise
extractData_normal(row) ==
    Bind(<<OrDefault(row[1], 0), OrDefault(row[2], -S), OrDefault(row[3], 0)>>,
         LAMBDA normal :
    Bind(Sqrt(Mul(normal[1], normal[1]) + Mul(normal[2], normal[2])
              + Mul(normal[3], normal[3])),
         LAMBDA normalMag :
             IF normalMag > DivInt(S, 100)
             THEN <<Div(normal[1], normalMag), Div(normal[2], normalMag),
                    Div(normal[3], normalMag)>>
             ELSE <<0, -S, 0>>))

\* normal columns of uploaded rows: absent, palm down, unit and longer normals
\* with and without zero components, and degenerate ones
EngineRowNormals ==
    {<<Null, Null, Null>>,
     <<Some(0), Some(-S), Some(0)>>,
     <<Some(614), Some(-819), Some(0)>>,
     <<Some(2 * S), Some(-2 * S), Some(S)>>,
     <<Some(S), Some(0), Some(0)>>,
     <<Some(0), Some(0), Some(-2 * S)>>,
     <<Some(0), Some(0), Some(0)>>,
     <<Some(5), Some(0), Some(0)>>,
     <<Some(0), Some(5), Some(0)>>}

EngineArgs ==
    {[fn |-> "calculateDiskViewFactor", a |-> a, L |-> L, D |-> D] :
        a \in EngineLaterals, L \in EngineHeights, D \in EngineDiameters}
    \cup {[fn |-> "simulateSolarPower", traj |-> t, model |-> m, D |-> D] :
        t \in EngineTrajectories, m \in {"oriented", "parallel"}, D \in EngineDiameters}
    \cup {[fn |-> "calculateDiskViewFactorParallel", a |-> a, L |-> L, D |-> D] :
        a \in EngineLaterals, L \in EngineHeights, D \in {SOURCE_DIAMETER}}
    \cup {[fn |-> "calculateDiskViewFactorA4", sample |-> x, D |-> D] :
        x \in EngineSamples, D \in {SOURCE_DIAMETER}}
    \cup {[fn |-> "simulateSolarPowerExact", traj |-> t, model |-> m, D |-> D] :
        t \in {<<x>> : x \in EngineExactSamples}, m \in {"oriented", "parallel"},
        D \in {SOURCE_DIAMETER}}
    \cup {[fn |-> "test_calculateDiskViewFactor", a |-> a, L |-> L, D |-> D] :
        a \in EngineLaterals, L \in EngineHeights, D \in EngineDiameters}
    \cup {[fn |-> "test_calculateOrientationAwareApprox", sample |-> x, D |-> D] :
        x \in EngineSamples, D \in EngineDiameters}
    \cup {[fn |-> "test_calculateExactViewFactor", sample |-> x, D |-> D,
            nR |-> n[1], nPhi |-> n[2]] :
        x \in EngineSamples, D \in {SOURCE_DIAMETER}, n \in EngineGrids}
    \cup {[fn |-> "simpson2D", a |-> a, L |-> L, D |-> D, nR |-> n[1], nPhi |-> n[2]] :
        a \in EngineLaterals, L \in {256, 1024}, D \in {SOURCE_DIAMETER}, n \in EngineGrids}
    \cup UNION {{[fn |-> "integrate2D", f |-> f, rMax |-> DivInt(SOURCE_DIAMETER, 2),
                    nR |-> n[1], nPhi |-> n[2]] : f \in EngineIntegrands(n)} :
                 n \in EngineGrids}
    \cup UNION {{[fn |-> m, arr1 |-> P, arr2 |-> F] : P \in EnginePowers(F), m \in EngineMetrics} :
                 F \in EngineSeries(EngineViewFactors)}
    \cup UNION {{[fn |-> "test_computeMetrics", arr1 |-> P, arr2 |-> F] :
                     P \in {Q \in EnginePowers(F) : Len(Q) = Len(F)}} :
                 F \in EngineSeries(EngineViewFactors)}
    \cup UNION {{[fn |-> "applyPerSegmentScaling", F |-> F, P |-> P] : P \in EnginePowers(F)} :
                 F \in EngineSeries(EngineViewFactors)}
    \cup EngineValidations
    \cup {[fn |-> "diskIntegrandA4", sample |-> x, r |-> r, phi |-> phi] :
            x \in EngineSamples, r \in EngineRadii, phi \in EngineAngles}
    \cup {[fn |-> "test_calculateExactViewFactor_F", sample |-> x, D |-> D,
            nR |-> n[1], nPhi |-> n[2]] :
        x \in EngineSamples, D \in {SOURCE_DIAMETER}, n \in EngineGrids}
    \cup UNION {{[fn |-> "calculateKappa", F |-> F, P |-> P] : P \in EnginePowers(F)} :
                 F \in EngineSeries(EngineViewFactors)}
    \cup UNION {{[fn |-> "test_calculateKappa", F |-> F, P |-> P] :
                     P \in {Q \in EnginePowers(F) : Len(Q) = Len(F)}} :
                 F \in EngineSeries(EngineViewFactors)}
    \cup {[fn |-> "extractData", normal |-> n] : n \in EngineRowNormals}

\* the value the entry point returns under settings st
Apply(x, st) ==
    CASE x.fn = "calculateDiskViewFactor" ->
            Return(calculateDiskViewFactor(x.a, x.L, x.D))
      [] x.fn = "simulateSolarPower" ->
            Return(simulateSolarPower(Positions(x.traj), Normals(x.traj), x.model,
                                      SOURCE_CENTER, x.D).power)
      [] x.fn = "calculateDiskViewFactorParallel" ->
            Return(calculateDiskViewFactorParallel(st, x.a, x.L, x.D))
      [] x.fn = "calculateDiskViewFactorA4" ->
            Return(calculateDiskViewFactorA4(st, x.sample[1],
                       <<-x.sample[2][1], -x.sample[2][2], -x.sample[2][3]>>,
                       SOURCE_CENTER, x.D))
      [] x.fn = "simulateSolarPowerExact" ->
            Return(simulateSolarPowerExact(st, Positions(x.traj), Normals(x.traj),
                                           SOURCE_CENTER, x.D, x.model).power)
      [] x.fn = "test_calculateDiskViewFactor" ->
            Return(test_calculateDiskViewFactor(x.a, x.L, x.D))
      [] x.fn = "test_calculateOrientationAwareApprox" ->
            LET g == calculateGeometry(x.sample[1], SOURCE_CENTER)
            IN  Return(test_calculateOrientationAwareApprox(g.a, g.H, x.D, x.sample[2],
                                                            x.sample[1], SOURCE_CENTER))
      [] x.fn = "test_calculateExactViewFactor" ->
            Return(test_calculateExactViewFactor(x.sample[1], x.sample[2], SOURCE_CENTER,
                                                 LAMP_NORMAL, x.D, x.nR, x.nPhi))
      [] x.fn = "simpson2D" ->
            Return(simpson2D(diskIntegrandFn, 0, DivInt(x.D, 2), 0, TWO_PI, x.a, x.L,
                             x.nR, x.nPhi))
      [] x.fn = "integrate2D" ->
            Return(integrate2D(Integrand(x.f, x.rMax, x.nR, x.nPhi), x.rMax, x.nR, x.nPhi))
      [] x.fn = "calculateRMSE" -> calculateRMSE(x.arr1, x.arr2)
      [] x.fn = "calculateR2" -> calculateR2(x.arr1, x.arr2)
      [] x.fn = "calculateCorrelation" -> calculateCorrelation(x.arr1, x.arr2)
      [] x.fn = "test_computeMetrics" -> Return(test_computeMetrics(x.arr1, x.arr2))
      [] x.fn = "applyPerSegmentScaling" -> applyPerSegmentScaling(x.F, Some(x.P))
      [] x.fn = "test_validate" ->
            Return(test_validate(x.real, x.sim, test_computeMetrics(x.real, x.expected)))
      [] x.fn = "diskIntegrandA4" ->
            Return(diskIntegrandA4(x.r, x.phi, x.sample[1],
                       normalize(<<-x.sample[2][1], -x.sample[2][2], -x.sample[2][3]>>),
                       SOURCE_CENTER, LAMP_NORMAL))
      [] x.fn = "test_calculateExactViewFactor_F" ->
            Return(test_calculateExactViewFactor_F(x.sample[1], x.sample[2], SOURCE_CENTER,
                                                   LAMP_NORMAL, x.D, x.nR, x.nPhi))
      [] x.fn = "calculateKappa" -> calculateKappa(x.F, x.P)
      [] x.fn = "test_calculateKappa" -> Return(test_calculateKappa(x.F, x.P))
      [] x.fn = "extractData" -> Return(extractData_normal(x.normal))

\* the application is constructed and idle
AppIdle ==
    /\ Constructed
    /\ fetches = <<>>
    /\ inflight = {}
    /\ applied = <<>>
    /\ events = 0
    /\ run = Ran("none", "none", <<>>, TRUE)

EngineInit ==
    /\ settings = DefaultSettings
    /\ args \in EngineArgs
    /\ log = <<>>
    /\ AppIdle

EngineCall ==
    /\ Len(log) < MaxCalls
    /\ log' = Append(log, [st |-> settings, out |-> Apply(args, settings)])
    /\ UNCHANGED <<settings, args, appVars>>

\* grid of 5 x 3 requested (3 is raised to the minimum 4), grid of 200 x -1
\* requested (beyond both limits), and a 100 mm diameter override
EngineNewSettings ==
    {[integrationResolutionR |-> Some(5), integrationResolutionPhi |-> Some(3),
      lightDiameterOverride |-> Null],
     [integrationResolutionR |-> Some(200), integrationResolutionPhi |-> Some(-1),
      lightDiameterOverride |-> Null],
     [integrationResolutionR |-> Null, integrationResolutionPhi |-> Null,
      lightDiameterOverride |-> Some(Some(1024))]}

EngineUpdateSettings ==
    /\ Len(log) < MaxCalls
    /\ \E ns \in EngineNewSettings : settings' = updateSettings(settings, ns)
    /\ UNCHANGED <<args, log, appVars>>

EngineResetSettings ==
    /\ Len(log) < MaxCalls
    /\ settings' = resetSettings(settings)
    /\ UNCHANGED <<args, log, appVars>>

EngineNext == EngineCall \/ EngineUpdateSettings \/ EngineResetSettings

SpecEngine == EngineInit /\ [][EngineNext]_vars

(***************************************************************************)
(* Properties.  Those over engine calls are read on SpecEngine, where args *)
(* is the call and log its results; those over the application on Spec.    *)
(***************************************************************************)
Calls == 1..Len(log)

InUnit(v) == 0 <= v /\ v <= S

SumSquares(F) == SumSeq(Tabulate(LAMBDA i : F[i] * F[i], Len(F)))

SumProducts(F, P) == SumSeq(Tabulate(LAMBDA i : F[i] * P[i], Len(F)))

ScalarEntryPoints ==
    {"calculateDiskViewFactor", "calculateDiskViewFactorParallel",
     "calculateDiskViewFactorA4", "test_calculateDiskViewFactor",
     "test_calculateOrientationAwareApprox", "test_calculateExactViewFactor"}

SeriesEntryPoints == {"simulateSolarPower", "simulateSolarPowerExact"}

\* C1: every view factor an entry point returns (simulator.js,
\* simulator_exact.js and the test copies) lies in [0, 1].
C1_ViewFactorsClamped ==
    \A j \in Calls :
        /\ args.fn \in ScalarEntryPoints => InUnit(log[j].out.value)
        /\ args.fn \in SeriesEntryPoints =>
               \A i \in 1..Len(log[j].out.value) : InUnit(log[j].out.value[i])

\* C2: every kappa-fitting routine (calculateKappa and its test copy) fails
\* with an error, returning no value, when the sum of F_i^2 is zero.
C2_ZeroDenominatorFails ==
    \A j \in Calls :
        (/\ args.fn \in {"calculateKappa", "test_calculateKappa"}
         /\ Len(args.F) = Len(args.P)
         /\ SumSquares(args.F) = 0) => ~log[j].out.ok

\* C3: in the oriented-approximate model a sample whose normal, or whose
\* cell-to-light vector, has zero magnitude gets view factor 0.
C3_ZeroNormalGivesZero ==
    \A j \in Calls :
        /\ (args.fn = "simulateSolarPower" /\ args.model = "oriented") =>
               \A i \in 1..Len(args.traj) :
                   (\/ norm(args.traj[i][2]) = 0
                    \/ args.traj[i][1] = SOURCE_CENTER) => log[j].out.value[i] = 0
        /\ args.fn = "test_calculateOrientationAwareApprox" =>
               ((\/ norm(args.sample[2]) = 0
                 \/ args.sample[1] = SOURCE_CENTER) => log[j].out.value = 0)

C6EntryPoints ==
    {"simulateSolarPower", "simulateSolarPowerExact",
     "calculateDiskViewFactorA4", "calculateDiskViewFactorParallel"}

C8_NoLightAtOrAboveLampPlane ==
    \A j \in Calls :
        /\ (/\ args.fn \in {"calculateDiskViewFactor", "calculateDiskViewFactorParallel",
                            "test_calculateDiskViewFactor"}
            /\ args.L <= 0) => log[j].out = Return(0)
        /\ (/\ args.fn \in {"calculateDiskViewFactorA4", "test_calculateExactViewFactor"}
            /\ SOURCE_CENTER[2] - args.sample[1][2] <= 0) => log[j].out = Return(0)
        /\ (\/ args.fn = "simulateSolarPowerExact"
            \/ args.fn = "simulateSolarPower" /\ args.model = "parallel") =>
               /\ log[j].out.ok
               /\ \A i \in 1..Len(args.traj) :
                      SOURCE_CENTER[2] - args.traj[i][1][2] <= 0 => log[j].out.value[i] = 0

\* the boundary a = 0, H = 0 in the exact module's parallel model, and the
\* exact model above the plane
C8_Witness ==
    /\ Len(log) >= 1
    /\ \/ /\ args.fn = "calculateDiskViewFactorParallel"
          /\ args.a = 0 /\ args.L = 0
       \/ /\ args.fn = "calculateDiskViewFactorA4"
          /\ SOURCE_CENTER[2] - args.sample[1][2] < 0
    /\ log[1].out = Return(0)

\* C9: the oriented-approximate view factor of a sample is at least 0 and at
\* most the parallel-disk view factor for the same (a, H, D), for every normal.
C9_OrientedAtMostParallel ==
    \A j \in Calls :
        /\ (args.fn = "simulateSolarPower" /\ args.model = "oriented") =>
               \A i \in 1..Len(args.traj) :
                   LET g == calculateGeometry(args.traj[i][1], SOURCE_CENTER)
                   IN  /\ 0 <= log[j].out.value[i]
                       /\ log[j].out.value[i] <= calculateDiskViewFactor(g.a, g.H, args.D)
        /\ args.fn = "test_calculateOrientationAwareApprox" =>
               LET g == calculateGeometry(args.sample[1], SOURCE_CENTER)
               IN  /\ 0 <= log[j].out.value
                   /\ log[j].out.value <= test_calculateDiskViewFactor(g.a, g.H, args.D)

\* C10: for F with a non-zero entry and P of the same length, calculateKappa
\* returns (sum F_i P_i) / (sum F_i^2), to the last bit carried; when
\* P_i = 3 F_i for all i it returns 3.
C10_KappaIsLeastSquares ==
    \A j \in Calls :
        (/\ args.fn = "calculateKappa"
         /\ Len(args.F) = Len(args.P)
         /\ SumSquares(args.F) # 0) =>
            /\ log[j].out.ok
            /\ log[j].out.value * SumSquares(args.F) <= SumProducts(args.F, args.P) * S
            /\ SumProducts(args.F, args.P) * S < (log[j].out.value + 1) * SumSquares(args.F)
            /\ (\A i \in 1..Len(args.F) : args.P[i] = 3 * args.F[i])
                   => log[j].out.value = 3 * S

\* a series of two or more samples with P = 3 F fitted to kappa = 3
C10_Witness ==
    /\ Len(log) >= 1
    /\ args.fn = "calculateKappa"
    /\ Len(args.F) >= 2
    /\ Len(args.P) = Len(args.F)
    /\ SumSquares(args.F) # 0
    /\ \A i \in 1..Len(args.F) : args.P[i] = 3 * args.F[i]
    /\ log[1].out = Return(3 * S)

\* the scalars a fit k of P on F is compared with: zero, the ratio P_i / F_i of
\* every sample, and the neighbours of k
OtherScalars(F, P, k) ==
    {0} \cup ((k - 2)..(k + 2)) \cup {Div(P[i], F[i]) : i \in {i \in 1..Len(F) : F[i] # 0}}

SumSquaredError(F, P, c) ==
    SumSeq(Tabulate(LAMBDA i : (applyKappaScaling(F, c)[i] - P[i])
                                   * (applyKappaScaling(F, c)[i] - P[i]), Len(F)))

ScaledRMSE(F, P, c) == calculateRMSE(applyKappaScaling(F, c), P).value

\* C11 as stated: for F not all zero and P of the same length, the series
\* applyKappaScaling(F, calculateKappa(F, P)) has a sum of squared errors, and
\* a calculateRMSE, against P no larger than that of c * F for any scalar c.
C11_CalibrationIsOptimal ==
    \A j \in Calls :
        (/\ args.fn = "calculateKappa"
         /\ log[j].out.ok) =>
            \A c \in OtherScalars(args.F, args.P, log[j].out.value) :
                /\ SumSquaredError(args.F, args.P, log[j].out.value)
                       <= SumSquaredError(args.F, args.P, c)
                /\ ScaledRMSE(args.F, args.P, log[j].out.value)
                       <= ScaledRMSE(args.F, args.P, c)

\* C11: for F not all zero and P of the same length, the calculateRMSE against
\* P of applyKappaScaling(F, calculateKappa(F, P)) exceeds that of c * F, for
\* any scalar c, by at most the rounding of the quotient, the products and the
\* root (four steps of the last place carried).
C11_CalibrationIsOptimalToRounding ==
    \A j \in Calls :
        (/\ args.fn = "calculateKappa"
         /\ log[j].out.ok) =>
            \A c \in OtherScalars(args.F, args.P, log[j].out.value) :
                ScaledRMSE(args.F, args.P, log[j].out.value)
                    <= ScaledRMSE(args.F, args.P, c) + 4

\* a fit of two or more samples, P not proportional to F, whose RMSE is below
\* that of the ratio of every single sample by more than the rounding
C11_Witness ==
    /\ Len(log) >= 1
    /\ args.fn = "calculateKappa"
    /\ Len(args.F) >= 2
    /\ log[1].out.ok
    /\ \A i \in 1..Len(args.F) : args.F[i] # 0
    /\ \A i \in 1..Len(args.F) :
           ScaledRMSE(args.F, args.P, log[1].out.value) + 4
               < ScaledRMSE(args.F, args.P, Div(args.P[i], args.F[i]))

\* the settings st with both interval counts made even
EvenSettings(st) ==
    [st EXCEPT !.integrationResolutionR = NextEven(st.integrationResolutionR),
               !.integrationResolutionPhi = NextEven(st.integrationResolutionPhi)]

\* C12: every quadrature routine (integrate2D under the exact model's entry
\* points, simpson2D, and the loops of the test copy of the exact model) raises
\* an odd requested interval count to the next even one before integrating:
\* a request of odd counts integrates as the request of the next even counts.
C12_OddCountsRaisedToEven ==
    \A j \in Calls :
        /\ args.fn \in {"calculateDiskViewFactorParallel", "calculateDiskViewFactorA4"} =>
               log[j].out = Apply(args, EvenSettings(log[j].st))
        /\ args.fn = "simpson2D" =>
               log[j].out = Apply([args EXCEPT !.nR = NextEven(args.nR),
                                               !.nPhi = NextEven(args.nPhi)], log[j].st)
        /\ args.fn = "test_calculateExactViewFactor" =>
               log[j].out = Apply([args EXCEPT !.nR = NextEven(args.nR),
                                               !.nPhi = NextEven(args.nPhi)], log[j].st)

\* C12 for integrate2D alone: under settings with an odd interval count the
\* exact model's view factors are those of the next even counts.
C12_Integrate2DRaisesOddCounts ==
    \A j \in Calls :
        args.fn \in {"calculateDiskViewFactorParallel", "calculateDiskViewFactorA4"} =>
            log[j].out = Apply(args, EvenSettings(log[j].st))

\* C12 for simpson2D alone
C12_Simpson2DRaisesOddCounts ==
    \A j \in Calls :
        args.fn = "simpson2D" =>
            log[j].out = Apply([args EXCEPT !.nR = NextEven(args.nR),
                                            !.nPhi = NextEven(args.nPhi)], log[j].st)

\* Simpson's weight of node k of n intervals
SimpsonWeight(k, n) == IF k = 0 \/ k = n THEN 1 ELSE IF k % 2 = 1 THEN 4 ELSE 2

\* the value integrate2D returns for a weighted node sum total
Integral(total, rMax, nR, nPhi) ==
    Mul(Mul(total, DivInt(DivInt(rMax, NextEven(nR)), 3)),
        DivInt(DivInt(TWO_PI, NextEven(nPhi)), 3))

\* integrate2D weights node (i, j) by w_r(i) * w_phi(j) of the pattern
\* 1, 4, 2, ..., 4, 1; the weights sum to 9 * n_r * n_phi; the integrand 0
\* integrates to 0
WeightsAreSimpson ==
    \A k \in Calls :
        args.fn = "integrate2D" =>
            /\ args.f.kind = "node" =>
                   log[k].out.value =
                       Integral(SimpsonWeight(args.f.i, NextEven(args.nR))
                                    * SimpsonWeight(args.f.j, NextEven(args.nPhi)) * args.f.c,
                                args.rMax, args.nR, args.nPhi)
            /\ args.f.kind = "constant" =>
                   log[k].out.value =
                       Integral(9 * NextEven(args.nR) * NextEven(args.nPhi) * args.f.c,
                                args.rMax, args.nR, args.nPhi)
            /\ (args.f.kind = "constant" /\ args.f.c = 0) => log[k].out.value = 0

\* C13 as stated: integrate2D weights node (i, j) by w_r(i) * w_phi(j) of the
\* pattern 1, 4, 2, ..., 4, 1, the weights sum to 9 * n_r * n_phi, the
\* integrand 0 integrates to 0, and a constant integrand c integrates to
\* exactly c * r_max * 2 pi.
C13_ConstantIntegratesExactly ==
    /\ WeightsAreSimpson
    /\ \A k \in Calls :
           (args.fn = "integrate2D" /\ args.f.kind = "constant") =>
               log[k].out.value = Mul(Mul(args.f.c, args.rMax), TWO_PI)

\* C13: integrate2D weights node (i, j) by w_r(i) * w_phi(j) of the pattern
\* 1, 4, 2, ..., 4, 1, the weights sum to 9 * n_r * n_phi, the integrand 0
\* integrates to 0, and a constant integrand c >= 0 integrates to
\* c * r_max * 2 pi up to the rounding of the two step sizes and their thirds
\* (with truncating arithmetic: not above it, and below it by less than four
\* steps of the last place per interval on either axis).
C13_ConstantIntegratesToRounding ==
    /\ WeightsAreSimpson
    /\ \A k \in Calls :
           (args.fn = "integrate2D" /\ args.f.kind = "constant") =>
               /\ log[k].out.value <= Mul(Mul(args.f.c, args.rMax), TWO_PI)
               /\ log[k].out.value + 2 >=
                      Mul(Mul(args.f.c, args.rMax - 4 * NextEven(args.nR)),
                          TWO_PI - 4 * NextEven(args.nPhi))

\* the constant 3 integrated on the grid made even from the request 5 x 3
C13_Witness ==
    /\ Len(log) >= 1
    /\ args.fn = "integrate2D"
    /\ args.f.kind = "constant"
    /\ args.f.c = 3 * S
    /\ args.nR = 5
    /\ log[1].out.value > 0
    /\ log[1].out.value = Integral(9 * 6 * 4 * 3 * S, args.rMax, 5, 3)

\* a metrics function called with arrays of different lengths has thrown
\* 'Arrays must have same length' and returned no value; called with arrays
\* of the same length it has returned
ThrowsOnMismatch ==
    \A j \in Calls :
        args.fn \in EngineMetrics =>
            /\ Len(args.arr1) # Len(args.arr2) =>
                   /\ log[j].out = Throw("Arrays must have same length")
                   /\ "value" \notin DOMAIN log[j].out
            /\ Len(args.arr1) = Len(args.arr2) => log[j].out.ok

\* C14: calculateRMSE, calculateR2 and calculateCorrelation each fail with an
\* error, returning no value, whenever their two arrays differ in length, and
\* the call changes no state: a step that calls one of them leaves the
\* settings and the application as they were.
C14_MismatchedLengthsFail ==
    /\ []ThrowsOnMismatch
    /\ [][(args.fn \in EngineMetrics /\ Len(log') > Len(log)) =>
              /\ settings' = settings
              /\ args' = args
              /\ appVars' = appVars]_vars

\* calculateCorrelation called twice with arrays of different lengths: both
\* calls threw
C14_Witness ==
    /\ Len(log) = MaxCalls
    /\ args.fn = "calculateCorrelation"
    /\ Len(args.arr1) = Len(args.arr2) + 1
    /\ \A j \in Calls : ~log[j].out.ok

IsConstant(arr) == \A i \in 1..Len(arr) : arr[i] = arr[1]

\* C15: every Pearson-correlation computation (calculateCorrelation and the
\* pearson value of the test scripts' computeMetrics) returns 0, not NaN, when
\* either input series is constant.
C15_ConstantSeriesCorrelateZero ==
    \A j \in Calls :
        /\ (/\ args.fn = "calculateCorrelation"
            /\ Len(args.arr1) = Len(args.arr2)
            /\ IsConstant(args.arr1) \/ IsConstant(args.arr2)) =>
               log[j].out = Return(Num(0))
        /\ (/\ args.fn = "test_computeMetrics"
            /\ IsConstant(args.arr1) \/ IsConstant(args.arr2)) =>
               log[j].out.value.pearson = Num(0)

\* C15 for calculateCorrelation alone
C15_CalculateCorrelationGuardsZero ==
    \A j \in Calls :
        (/\ args.fn = "calculateCorrelation"
         /\ Len(args.arr1) = Len(args.arr2)
         /\ IsConstant(args.arr1) \/ IsConstant(args.arr2)) =>
            log[j].out = Return(Num(0))

\* both resolutions of settings st lie in [4, 100]
ResolutionInRange(st) ==
    /\ 4 <= st.integrationResolutionR /\ st.integrationResolutionR <= 100
    /\ 4 <= st.integrationResolutionPhi /\ st.integrationResolutionPhi <= 100

\* C16: after any sequence of updateSettings and resetSettings calls both
\* resolutions of the settings lie in [4, 100], so every call of the exact
\* simulator ran with n_r >= 4 and n_phi >= 4; resetSettings restores
\* 20 x 20 and a null diameter override.
C16_ResolutionAtLeastFour ==
    /\ [](/\ ResolutionInRange(settings)
          /\ \A j \in Calls : ResolutionInRange(log[j].st))
    /\ [][EngineResetSettings =>
              settings' = [integrationResolutionR |-> 20, integrationResolutionPhi |-> 20,
                           lightDiameterOverride |-> Null]]_vars

\* the exact model was called under the settings left by the request of
\* 200 x -1, stored as 100 x 4, and the settings have since been reset
C16_Witness ==
    /\ Len(log) >= 1
    /\ args.fn = "calculateDiskViewFactorA4"
    /\ log[1].st.integrationResolutionR = 100
    /\ log[1].st.integrationResolutionPhi = 4
    /\ settings = DefaultSettings

SimulationRuns == {"loadUploadedGesture", "recomputeSimulation"}

\* the gesture data shown has measured power, and the last handler ran a
\* simulation on it and returned
RanWithPower ==
    /\ currentGestureData # Null
    /\ currentGestureData[1].real_power # Null
    /\ run.op \in SimulationRuns
    /\ run.ok

C5_NoPowerRunsComplete ==
    (/\ currentGestureData # Null
     /\ currentGestureData[1].real_power = Null
     /\ run.op \in SimulationRuns \cup {"handleCustomTrajectory"}) =>
        /\ run.ok
        /\ \/ \A i \in 1..Len(currentGestureData[1].current_sim) :
                  /\ 20 * S <= currentGestureData[1].current_sim[i]
                  /\ currentGestureData[1].current_sim[i] <= 80 * S
           \/ currentGestureData[1].current_sim = run.F

\* C7: a load's response is never applied after the response of a load
\* issued later.
C7_OnlyLatestLoadApplied ==
    \A i, j \in 1..Len(applied) : i < j => applied[i] < applied[j]

\* C17: whenever the loaded trajectory carries a calibration result (kappa is
\* non-null and scaling_method is 'kappa'), kappa is strictly positive.
C17_StoredKappaPositive ==
    (/\ currentGestureData # Null
     /\ "kappa" \in DOMAIN currentGestureData[1]
     /\ currentGestureData[1].kappa # Null
     /\ currentGestureData[1].scaling_method = Some("kappa")) =>
        currentGestureData[1].kappa[1] > 0

C19_PassedImpliesPowerWithinOnePercent ==
    \A j \in Calls :
        (args.fn = "test_validate" /\ log[j].out.value) =>
            /\ Within(test_computeMetrics(args.real, args.sim).rmse,
                      test_computeMetrics(args.real, args.expected).rmse, S)
            /\ Within(test_computeMetrics(args.real, args.sim).r2,
                      test_computeMetrics(args.real, args.expected).r2, 1)
            /\ Within(test_computeMetrics(args.real, args.sim).pearson,
                      test_computeMetrics(args.real, args.expected).pearson, 1)
            /\ \A i \in 1..Len(args.sim) :
                   100 * Abs(args.sim[i] - args.expected[i]) <= Abs(args.expected[i])

\* the vector from the lamp patch at (r, phi) to the hand of the call
PatchToHand ==
    <<args.sample[1][1] - (SOURCE_CENTER[1] + Mul(args.r, Cos(args.phi))),
      args.sample[1][2] - SOURCE_CENTER[2],
      args.sample[1][3] - (SOURCE_CENTER[3] + Mul(args.r, Sin(args.phi)))>>

\* the patch can see the hand and the cell faces the patch
PatchVisible ==
    /\ dot(PatchToHand, LAMP_NORMAL) > 0
    /\ dot(PatchToHand, normalize(<<-args.sample[2][1], -args.sample[2][2],
                                    -args.sample[2][3]>>)) < 0

\* C20: the oriented-exact integrand is never negative and is exactly 0 for a
\* patch that cannot see the hand, that the cell does not face, that lies at
\* the disk centre or that coincides with the hand; the exact view factor
\* before any clamp (calculateDiskViewFactorA4, and F of the test copy) is
\* never negative.
C20_CulledPatchesContributeNothing ==
    \A j \in Calls :
        /\ args.fn = "diskIntegrandA4" =>
               /\ log[j].out.value >= 0
               /\ (\/ ~PatchVisible
                   \/ args.r < 1
                   \/ dot(PatchToHand, PatchToHand) < 1) => log[j].out.value = 0
        /\ args.fn \in {"calculateDiskViewFactorA4", "test_calculateExactViewFactor_F"} =>
               log[j].out.value >= 0

\* a patch off the centre that can see the hand, under a cell facing away from
\* it, has been evaluated
C20_Witness ==
    /\ args.fn = "diskIntegrandA4"
    /\ args.r >= 1
    /\ dot(PatchToHand, LAMP_NORMAL) > 0
    /\ ~PatchVisible
    /\ Len(log) > 0
    /\ log[1].out.value = 0

\* a visible patch has been evaluated and contributes
C20_VisiblePatchContributes ==
    /\ args.fn = "diskIntegrandA4"
    /\ PatchVisible
    /\ Len(log) > 0
    /\ log[1].out.value > 0

\* a patch coinciding with the hand has been evaluated
C20_PatchAtHand ==
    /\ args.fn = "diskIntegrandA4"
    /\ args.r >= 1
    /\ dot(PatchToHand, PatchToHand) < 1
    /\ Len(log) > 0

\* the grid of the quadrature call, and the radius it is to cover
QuadratureGrid ==
    IF args.fn = "integrate2D"
    THEN integrate2D_grid(args.rMax, args.nR, args.nPhi)
    ELSE test_calculateExactViewFactor_grid(args.D, args.nR, args.nPhi)

QuadratureRadius == IF args.fn = "integrate2D" THEN args.rMax ELSE DivInt(args.D, 2)

\* C21: for any requested interval counts the quadrature routines sample a
\* grid from r = 0 to r = r_max and from phi = 0 to phi = 2 pi (the last nodes
\* up to the rounding of the step, one unit per interval), and no node of it
\* lies outside the disk radius.
C21_GridSpansTheDisk ==
    \A j \in Calls :
        args.fn \in {"integrate2D", "test_calculateExactViewFactor_F"} =>
            LET g == QuadratureGrid
            IN  /\ g.nR * g.dr <= QuadratureRadius
                /\ g.nR * g.dr > QuadratureRadius - g.nR
                /\ g.nPhi * g.dPhi <= TWO_PI
                /\ g.nPhi * g.dPhi > TWO_PI - g.nPhi

\* C21 for integrate2D alone
C21_Integrate2DGridSpansTheDisk ==
    \A j \in Calls :
        args.fn = "integrate2D" =>
            LET g == QuadratureGrid
            IN  /\ g.nR * g.dr <= QuadratureRadius
                /\ g.nR * g.dr > QuadratureRadius - g.nR
                /\ g.nPhi * g.dPhi <= TWO_PI
                /\ g.nPhi * g.dPhi > TWO_PI - g.nPhi

\* calculateDiskViewFactorA4 for the sample and diameter of the call, at the
\* resolution of the call
A4AtCallResolution ==
    calculateDiskViewFactorA4(
        [DefaultSettings EXCEPT !.integrationResolutionR = args.nR,
                                !.integrationResolutionPhi = args.nPhi],
        args.sample[1],
        <<-args.sample[2][1], -args.sample[2][2], -args.sample[2][3]>>,
        SOURCE_CENTER, args.D)

\* C22: calculateExactViewFactor of the tests returns the view factor of
\* calculateDiskViewFactorA4 for the same cell position, palm normal (of any
\* magnitude), lamp position, diameter and resolution (up to 8 steps of
\* rounding, the two normalizing in a different order).
C22_TestCopyMatchesExactEngine ==
    \A j \in Calls :
        args.fn = "test_calculateExactViewFactor" =>
            Abs(log[j].out.value - A4AtCallResolution) <= 8

\* C22 for unit palm normals, even interval counts and view factors of at most 1
C22_TestCopyMatchesOnUnitNormals ==
    \A j \in Calls :
        (/\ args.fn = "test_calculateExactViewFactor"
         /\ args.sample[2] \in {<<0, -S, 0>>, <<0, S, 0>>}
         /\ args.nR % 2 = 0 /\ args.nPhi % 2 = 0
         /\ A4AtCallResolution <= S) =>
            Abs(log[j].out.value - A4AtCallResolution) <= 8

\* C23: whenever a trajectory is loaded, originalLightPosition is that
\* trajectory's own light-source position, and lightPositionModified is true
\* exactly when the light is more than 0.1 mm away from it on some axis.
C23_OriginalLightIsTheTrajectorys ==
    currentGestureData # Null =>
        /\ originalLightPosition = currentGestureData[1].light_source.position
        /\ lightPositionModified =
               checkLightPositionModified(lightPosition,
                                          currentGestureData[1].light_source.position)

\* C23 for preset and custom trajectories
C23_OriginalLightOfPresetAndCustom ==
    (currentGestureData # Null /\ ~currentGestureData[1].isUploaded) =>
        /\ originalLightPosition = currentGestureData[1].light_source.position
        /\ lightPositionModified =
               checkLightPositionModified(lightPosition,
                                          currentGestureData[1].light_source.position)

\* C24: the Parallel Disk model is never selected together with exact accuracy.
C24_NoExactParallel == ~(currentModel = "parallel" /\ currentAccuracy = "exact")

\* C24 for the model radio buttons: a radio change never leaves Parallel Disk
\* selected with exact accuracy
C24_RadioChangeForcesFast ==
    [][modelRadioChange => ~(currentModel' = "parallel" /\ currentAccuracy' = "exact")]_vars

\* the step stores a new series in currentGestureData.current_sim
SeriesStored ==
    /\ currentGestureData' # Null
    /\ \/ currentGestureData = Null
       \/ currentGestureData'[1].current_sim # currentGestureData[1].current_sim

\* the series the step stores is the one of the model selected after it: the
\* handler simulated with that model, or (a preset) picked its precomputed series
StoredForSelectedModel ==
    \/ run'.model = currentModel'
    \/ /\ run'.op = "loadGestureResolved"
       /\ currentGestureData'[1].current_sim =
              IF currentModel' = "oriented" THEN currentGestureData'[1].sim_oriented
              ELSE currentGestureData'[1].sim_parallel

\* C25: current_sim is always a series of the currently selected model: every
\* step that stores a series stores one of the model then selected (a CSV
\* upload under Parallel Disk included), and every step that selects another
\* model on loaded data stores the series anew.
C25_SeriesOfSelectedModel ==
    /\ [][SeriesStored => StoredForSelectedModel]_vars
    /\ [][(currentModel' # currentModel /\ currentGestureData # Null) =>
              (run'.op = "recomputeSimulation" /\ run'.model = currentModel')]_vars

\* C25 for the steps of recomputeSimulation and handleCustomTrajectory
C25_RecomputedForSelectedModel ==
    [][run'.op \in {"recomputeSimulation", "handleCustomTrajectory"} =>
          run'.model = currentModel']_vars

\* the step is a load of an uploaded trajectory that failed part-way
UploadFailed == run'.op = "loadUploadedGesture" /\ ~run'.ok

\* C26: a load of an uploaded trajectory that fails part-way leaves
\* currentGestureData and uploadedGestureCache as they were.
C26_FailedUploadChangesNothing ==
    [][UploadFailed => /\ currentGestureData' = currentGestureData
                       /\ uploadedGestureCache' = uploadedGestureCache]_vars

\* C26 for currentGestureData alone
C26_FailedUploadKeepsGestureData ==
    [][UploadFailed => currentGestureData' = currentGestureData]_vars

\* floor(currentFrame) is an index of the trajectory loaded
FrameInRange ==
    currentGestureData # Null =>
        /\ 0 <= playback.currentFrame \div S
        /\ playback.currentFrame \div S < num_samples(currentGestureData[1])

\* C27: whenever a trajectory is loaded, 0 <= floor(currentFrame) < num_samples,
\* and every per-frame lookup into positions, normals and current_sim is made
\* at an index of the arrays (an integer from 0 to num_samples - 1).
C27_FrameLookupsInBounds ==
    /\ FrameInRange
    /\ (currentGestureData # Null /\ playback.stateIndex # Null) =>
           /\ playback.stateIndex[1] % S = 0
           /\ 0 <= playback.stateIndex[1]
           /\ playback.stateIndex[1] \div S < num_samples(currentGestureData[1])

\* C27 for the frame alone: floor(currentFrame) stays an index of the loaded
\* trajectory, and a tick that reaches num_samples wraps the frame to 0
C27_FrameWrapsInRange ==
    /\ []FrameInRange
    /\ [][(animationFrame /\ playback'.currentFrame # playback.currentFrame) =>
              \/ playback'.currentFrame = 0
              \/ /\ playback'.currentFrame > playback.currentFrame
                 /\ playback'.currentFrame < num_samples(currentGestureData[1]) * S]_vars

\* C28: at most one animation-frame callback is pending, none while isPlaying
\* is false, and a tick advances currentFrame only while playing; play while
\* playing changes nothing; pause cancels the pending callback and clears
\* animationId.
C28_OneCallbackPending ==
    /\ [](/\ Cardinality(playback.rafQueue) <= 1
          /\ ~playback.isPlaying => playback.rafQueue = {})
    /\ [][(animationFrame /\ playback'.currentFrame # playback.currentFrame) =>
              playback.isPlaying]_vars
    /\ [][(playClick /\ playback.isPlaying) => playback' = playback]_vars
    /\ [][pauseClick => (/\ ~playback'.isPlaying
                         /\ playback'.animationId = Null
                         /\ playback'.rafQueue = {})]_vars

\* a tick has run while playing and has requested the next callback, the only
\* one pending
C28_Witness ==
    /\ run.op = "animate"
    /\ playback.isPlaying
    /\ playback.currentFrame > 0
    /\ playback.animationId # Null
    /\ playback.rafQueue = {playback.animationId[1]}


\* the diameter a run is to use: the settings override when one is set,
\* otherwise the loaded trajectory's own
effectiveDiameter(st, gd) ==
    IF st.lightDiameterOverride # Null
    THEN st.lightDiameterOverride[1] ELSE gd.light_source.diameter

\* the raw series of one model of gesture data gd evaluated at diameter D,
\* the exact engine serving the oriented model in exact mode
SeriesAtDiameter(gd, model, accuracy, light, st, D) ==
    IF accuracy = "exact" /\ model = "oriented"
    THEN simulateSolarPowerExact(st, gd.positions, gd.normals, light, D, model).power
    ELSE simulateSolarPower(gd.positions, gd.normals, model, light, D).power

UploadRan == run.op = "loadUploadedGesture" /\ run.ok /\ currentGestureData # Null

\* C29: within one simulation run every model is evaluated with the same
\* effective diameter, the settings override when one is set and otherwise
\* the trajectory's own: both series of an upload and the series of a
\* recomputation are the ones that diameter gives.
C29_OneEffectiveDiameterPerRun ==
    /\ UploadRan =>
         \E gd \in {currentGestureData[1]} :
         \E D \in {effectiveDiameter(settings, gd)} :
            /\ gd.raw_view_factors_oriented =
                 Some(SeriesAtDiameter(gd, "oriented", currentAccuracy, lightPosition,
                                       settings, D))
            /\ gd.raw_view_factors_parallel =
                 Some(SeriesAtDiameter(gd, "parallel", currentAccuracy, lightPosition,
                                       settings, D))
    /\ (run.op = "recomputeSimulation" /\ currentGestureData # Null) =>
         \E gd \in {currentGestureData[1]} :
            run.F = SeriesAtDiameter(gd, currentModel, currentAccuracy, lightPosition,
                                     settings, effectiveDiameter(settings, gd))

\* the part of C29 that holds: a recomputation evaluates the selected model at
\* the effective diameter, in fast and in exact mode
C29_RecomputationUsesEffectiveDiameter ==
    (run.op = "recomputeSimulation" /\ currentGestureData # Null) =>
         \E gd \in {currentGestureData[1]} :
            run.F = SeriesAtDiameter(gd, currentModel, currentAccuracy, lightPosition,
                                     settings, effectiveDiameter(settings, gd))

\* an upload's two series are evaluated at one diameter when no override is set
C29_UploadWithoutOverride ==
    (UploadRan /\ settings.lightDiameterOverride = Null) =>
         \E gd \in {currentGestureData[1]} :
            /\ gd.raw_view_factors_oriented =
                 Some(SeriesAtDiameter(gd, "oriented", currentAccuracy, lightPosition,
                                       settings, SOURCE_DIAMETER))
            /\ gd.raw_view_factors_parallel =
                 Some(SeriesAtDiameter(gd, "parallel", currentAccuracy, lightPosition,
                                       settings, SOURCE_DIAMETER))


\* the normal a row supplies, its absent cells read as 0
SuppliedNormal(row) ==
    <<IF row[1] = Null THEN 0 ELSE row[1][1],
      IF row[2] = Null THEN 0 ELSE row[2][1],
      IF row[3] = Null THEN 0 ELSE row[3][1]>>

ExtractCalls == {j \in Calls : args.fn = "extractData"}

\* C30: every normal the CSV extraction emits is a unit vector: a supplied
\* normal longer than 0.01 is emitted as itself divided by its magnitude (also
\* when one of its components is exactly 0), and an absent or degenerate one
\* is replaced by [0, -1, 0].
C30_NormalsAreNormalizedOrDefault ==
    \A j \in ExtractCalls :
        \E supplied \in {SuppliedNormal(args.normal)} :
        \E mag \in {norm(supplied)} :
            /\ Abs(norm(log[j].out.value) - S) <= 2
            /\ log[j].out.value =
                 IF mag > DivInt(S, 100)
                 THEN <<Div(supplied[1], mag), Div(supplied[2], mag), Div(supplied[3], mag)>>
                 ELSE <<0, -S, 0>>

\* the part of C30 that holds: every emitted normal is a unit vector up to
\* rounding, and a supplied normal whose y component is not 0 keeps its direction
C30_UnitAndDirectedWhenYNonZero ==
    \A j \in ExtractCalls :
        \E supplied \in {SuppliedNormal(args.normal)} :
        \E mag \in {norm(supplied)} :
            /\ Abs(norm(log[j].out.value) - S) <= 2
            /\ (supplied[2] # 0 /\ mag > DivInt(S, 100)) =>
                 log[j].out.value =
                     <<Div(supplied[1], mag), Div(supplied[2], mag), Div(supplied[3], mag)>>

====
